---- MODULE Spec2Model ----
(***************************************************************************)
(* A model of the Ribbit virtual machine of src/host/rs/rvm-wo-markup.rs:  *)
(* the rib heap, the copying collector, the bytecode decoder, the          *)
(* primitives and the interpreter loop of run_rvm.                         *)
(*                                                                         *)
(* Heap index i of the program is position i+1 of the sequence heap.       *)
(***************************************************************************)
EXTENDS Integers, Sequences, FiniteSets, TLC

(***************************************************************************)
(* Rib fields and ribs (enum RibField, struct Rib).                        *)
(***************************************************************************)
Rib(i) == [rib |-> TRUE, v |-> i]

Number(n) == [rib |-> FALSE, v |-> n]

is_rib(obj) == obj.rib

PAIR == 0

PROCEDURE == 1

SYMBOL == 2

STRING_TAG == 3

VECTOR == 4

SPECIAL == 5

CALL == 0

SET == 1

GET == 2

CNST == 3

IF_OP == 4

HALT == 5

make_rib(first, middle, last) == [first |-> first, middle |-> middle, last |-> last]

make_data_rib(first, middle, last) == make_rib(first, middle, Number(last))

make_op_rib(first, middle, last) == make_rib(Number(first), middle, last)

NIL == make_rib(Number(0), Number(0), Number(SPECIAL))

TRUE_RIB == make_rib(Number(0), Number(0), Number(SPECIAL))

FALSE_RIB == make_rib(Number(0), Number(0), Number(SPECIAL))

NIL_REF == 2

TRUE_REF == 1

FALSE_REF == 0

(***************************************************************************)
(* RibHeap: a vector of ribs.  get and set index the vector and panic on   *)
(* an index that is not below its length; callers test InHeap first.       *)
(***************************************************************************)
InHeap(h, i) == i >= 0 /\ i < Len(h)

get(h, i) == h[i + 1]

set(h, i, r) == [h EXCEPT ![i + 1] = r]

push_rib(h, data) == Append(h, data)

Fields(r) == <<r.first, r.middle, r.last>>

(***************************************************************************)
(* RibHeap::garbage_collect.  The collector state g holds the old heap,    *)
(* the new heap, index_correspondence (a function whose domain is the set  *)
(* of keys), the work list list_ribs_to_copy, the index being looked at,   *)
(* and ok, which turns FALSE where the code panics (an old index that is   *)
(* not in the old heap, a key that is not in the map).                     *)
(***************************************************************************)
contains_key(map, k) == k \in DOMAIN map

insert(map, k, v) == [x \in (DOMAIN map) \cup {k} |-> IF x = k THEN v ELSE map[x]]

RECURSIVE PushRefs(_, _, _)
PushRefs(fs, list, map) ==
    IF fs = <<>> THEN list
    ELSE LET f == Head(fs)
             l2 == IF is_rib(f) /\ ~contains_key(map, f.v) THEN Append(list, f.v) ELSE list
         IN PushRefs(Tail(fs), l2, map)

\* A scan that looks at the first field only.
ScanFirstField(rib, list, map) == PushRefs(<<rib.first>>, list, map)

scan_for_copiable_rib_refs(rib, list, map) == PushRefs(Fields(rib), list, map)

\* The loop of scan_and_sweep with a work list that is a queue: the index
\* at its front is taken, and copied when it has no new index yet.
RECURSIVE CopyLoopFifo(_)
CopyLoopFifo(g) ==
    IF ~g.ok \/ g.list = <<>> THEN g
    ELSE IF contains_key(g.map, g.list[1]) THEN CopyLoopFifo([g EXCEPT !.list = Tail(@)])
    ELSE IF ~InHeap(g.old, g.list[1]) THEN [g EXCEPT !.ok = FALSE]
    ELSE CopyLoopFifo(
             [g EXCEPT
                !.list = scan_for_copiable_rib_refs(get(g.old, g.list[1]), Tail(g.list), g.map),
                !.map = insert(g.map, g.list[1], Len(g.new)),
                !.new = Append(g.new, get(g.old, g.list[1]))])

RECURSIVE CopyLoop(_)
CopyLoop(g) ==
    IF ~g.ok \/ g.list = <<>> THEN g
    ELSE LET g1 == IF contains_key(g.map, g.idx) THEN g
                   ELSE IF ~InHeap(g.old, g.idx) THEN [g EXCEPT !.ok = FALSE]
                   ELSE LET copied_rib == get(g.old, g.idx)
                        IN [g EXCEPT
                              !.list = scan_for_copiable_rib_refs(copied_rib, g.list, g.map),
                              !.map = insert(g.map, g.idx, Len(g.new)),
                              !.new = Append(g.new, copied_rib)]
         IN IF ~g1.ok THEN g1
            ELSE CopyLoop([g1 EXCEPT !.idx = g1.list[Len(g1.list)],
                                     !.list = SubSeq(g1.list, 1, Len(g1.list) - 1)])

\* scan_and_sweep(start): copies what start reaches; start_out is the rewritten root.
scan_and_sweep(g, start) ==
    LET start_out == IF ~contains_key(g.map, start) THEN Len(g.new) ELSE g.map[start]
    IN IF start_out # Len(g.new)
       THEN [g EXCEPT !.start = start_out]
       ELSE CopyLoop([g EXCEPT !.start = start_out, !.list = <<start>>, !.idx = start])

\* One root: scanned only when it is an index of the old heap.
\* One root of garbage_collect: a root outside the old heap is left as it is.
RootDone(g) == [g EXCEPT !.roots = Append(@, g.start)]

SweepRoot(g, root) ==
    RootDone(IF g.ok /\ root < Len(g.old) THEN scan_and_sweep(g, root)
             ELSE [g EXCEPT !.start = root])

\* A rewriting that leaves every field as it is.
KeepField(f, map) == f

RewriteField(f, map) == IF is_rib(f) THEN Rib(map[f.v]) ELSE f

RewriteOk(r, map) == \A k \in 1..3 : is_rib(Fields(r)[k]) => contains_key(map, Fields(r)[k].v)

RewriteRib(r, map) ==
    make_rib(RewriteField(r.first, map), RewriteField(r.middle, map), RewriteField(r.last, map))

\* The last loop of garbage_collect: every rib of the new heap from index 3 on.
RewriteFrom == 3

\* A rewriting that starts at index 0 and leaves what the map does not hold.
RewriteEveryRib(new, map) ==
    [k \in 1..Len(new) |->
        [j \in {"first", "middle", "last"} |->
            IF is_rib(new[k][j]) /\ contains_key(map, new[k][j].v)
            THEN Rib(map[new[k][j].v]) ELSE new[k][j]]]

RewriteHeap(new, map) ==
    [k \in 1..Len(new) |-> IF k - 1 >= RewriteFrom THEN RewriteRib(new[k], map) ELSE new[k]]

\* The end of garbage_collect once the three roots are swept: g.roots holds the
\* new symtbl, pc and stack in that order.
GcResult(h, g, ok) ==
    [ok |-> ok,
     heap |-> IF ok THEN RewriteHeap(g.new, g.map) ELSE h,
     stack |-> g.roots[3], pc |-> g.roots[2], symtbl |-> g.roots[1],
     map |-> g.map,
     size |-> Len(g.new)]

GcRewrite(h, g) ==
    GcResult(h, g,
        g.ok /\ \A k \in 1..Len(g.new) : k - 1 >= RewriteFrom => RewriteOk(g.new[k], g.map))

garbage_collect(h, stack_in, pc_in, symtbl_in) ==
    GcRewrite(h,
        SweepRoot(
            SweepRoot(
                SweepRoot([old |-> h, new |-> <<get(h, 0), get(h, 1), get(h, 2)>>,
                           map |-> [x \in {0, 1, 2} |-> x], list |-> <<>>, idx |-> 0,
                           start |-> 0, ok |-> TRUE, roots |-> <<>>],
                          symtbl_in),
                pc_in),
            stack_in))

(***************************************************************************)
(* The machine state m threaded through one interpreter iteration: heap,   *)
(* stack, the value last returned (ret), a second list pointer (aux: rest, *)
(* new_list, s2, accum), the standard streams, and status:                 *)
(*   "run"    the code continues                                           *)
(*   "panic"  a Rust panic (get_rib of a number, index out of bounds, ...)  *)
(*   "exit"   process::exit(code)                                          *)
(*   "diverge" a loop of the code that never ends                          *)
(* Every operation leaves a machine that is not running as it is.          *)
(***************************************************************************)
Ok(m) == m.status = "run"

Panic(m) == [m EXCEPT !.status = "panic"]

Exit(m, c) == [m EXCEPT !.status = "exit", !.code = c]

Diverge(m) == [m EXCEPT !.status = "diverge"]

Ret(m, x) == [m EXCEPT !.ret = x]

\* RibField::get_rib succeeds: a reference to an index of the heap.
RibOk(m, f) == is_rib(f) /\ InHeap(m.heap, f.v)

\* push_stack whose cell is linked to () instead of the old stack.
push_stack_unlinked(m, x) ==
    IF ~Ok(m) THEN m
    ELSE [m EXCEPT !.heap = push_rib(m.heap, make_data_rib(x, Rib(NIL_REF), PAIR)),
                   !.stack = Len(m.heap)]

push_stack(m, x) ==
    IF ~Ok(m) THEN m
    ELSE [m EXCEPT !.heap = push_rib(m.heap, make_data_rib(x, Rib(m.stack), PAIR)),
                   !.stack = Len(m.heap)]

\* push_stack on the list pointer aux instead of the stack.
push_aux(m, x) ==
    IF ~Ok(m) THEN m
    ELSE [m EXCEPT !.heap = push_rib(m.heap, make_data_rib(x, Rib(m.aux), PAIR)),
                   !.aux = Len(m.heap)]

pop_stack(m) ==
    IF ~Ok(m) THEN m
    ELSE IF ~InHeap(m.heap, m.stack) THEN Panic(m)
    ELSE LET r == get(m.heap, m.stack)
         IN IF ~is_rib(r.middle) THEN Panic(m)
            ELSE [m EXCEPT !.ret = r.first, !.stack = r.middle.v]

\* list_tail(list, i): -1 where the code panics.  i is a u32: a negative
\* number cast to it is above 2^31, and no middle chain of the heap is that long
\* without a cycle (the recursion then overflows the call stack).
RECURSIVE list_tail(_, _, _)
list_tail(h, list, i) ==
    IF i = 0 THEN list
    ELSE IF i < 0 \/ ~InHeap(h, list) \/ ~is_rib(get(h, list).middle) THEN -1
    ELSE list_tail(h, get(h, list).middle.v, i - 1)

get_opnd_ref(h, o, stack_) == IF is_rib(o) THEN o.v ELSE list_tail(h, stack_, o.v)

\* get_cont: the first cell of the middle chain whose last is a reference;
\* -1 where the code panics, -2 where the loop never ends (a cyclic chain).
RECURSIVE ContLoop(_, _, _)
ContLoop(h, s, fuel) ==
    IF ~InHeap(h, s) THEN -1
    ELSE IF is_rib(get(h, s).last) THEN s
    ELSE IF ~is_rib(get(h, s).middle) THEN -1
    ELSE IF fuel = 0 THEN -2
    ELSE ContLoop(h, get(h, s).middle.v, fuel - 1)

get_cont(h, stack_) == ContLoop(h, stack_, Len(h))

(***************************************************************************)
(* The pretty-printer.  Only its outcome is modelled, not the text: "ok",  *)
(* "panic" (get_rib out of the heap, get_number of a reference,            *)
(* char::from_u32 of no scalar value) or "diverge" (show called on a rib   *)
(* inside its own rendering, or a loop over a cyclic list of characters).  *)
(* path is the set of the ribs whose rendering is under way.               *)
(***************************************************************************)
Then(a, b) == IF a # "ok" THEN a ELSE b

IsTag(f, tag) == ~is_rib(f) /\ f.v = tag

\* char::from_u32(n as u32) is Some
IsChar(n) == (n >= 0 /\ n < 55296) \/ (n > 57343 /\ n <= 1114111)

\* The loops over the characters of a name or of a string.
RECURSIVE ShowChars(_, _, _)
ShowChars(h, field_o, seen) ==
    IF ~is_rib(field_o) THEN "ok"
    ELSE IF ~InHeap(h, field_o.v) THEN "panic"
    ELSE IF ~IsTag(get(h, field_o.v).last, 0) THEN "ok"
    ELSE IF is_rib(get(h, field_o.v).first) \/ ~IsChar(get(h, field_o.v).first.v) THEN "panic"
    ELSE IF field_o.v \in seen THEN "diverge"
    ELSE ShowChars(h, get(h, field_o.v).middle, seen \cup {field_o.v})

RECURSIVE show(_, _, _)
RECURSIVE ShowTail(_, _, _, _)
\* The loop of the PAIR arm and the dotted tail after it; n elements are shown.
ShowTail(h, o_middle, n, path) ==
    IF ~is_rib(o_middle) THEN "ok"
    ELSE IF ~InHeap(h, o_middle.v) THEN "panic"
    ELSE IF IsTag(get(h, o_middle.v).last, 0)
    THEN IF n > 4 THEN "ok"
         ELSE Then(show(h, get(h, o_middle.v).first, path),
                   ShowTail(h, get(h, o_middle.v).middle, n + 1, path))
    ELSE IF o_middle # Rib(NIL_REF) THEN show(h, o_middle, path) ELSE "ok"

\* The three fields in turn; the first that fails ends the rendering.
ShowFields(h, rib_o, path) ==
    CASE show(h, rib_o.first, path) # "ok" -> show(h, rib_o.first, path)
      [] show(h, rib_o.middle, path) # "ok" -> show(h, rib_o.middle, path)
      [] OTHER -> show(h, rib_o.last, path)

ShowProcedure(h, rib_o) ==
    IF ~is_rib(rib_o.first) THEN "ok"
    ELSE IF ~InHeap(h, rib_o.first.v) \/ is_rib(get(h, rib_o.first.v).first) THEN "panic"
    ELSE "ok"

\* The SYMBOL arm: the name is rendered by the loop when it is a rib whose
\* last is 2 and whose middle is a positive number.
ShowSymbol(h, rib_o, path) ==
    IF ~is_rib(rib_o.middle) THEN "ok"
    ELSE IF ~InHeap(h, rib_o.middle.v) THEN "panic"
    ELSE IF IsTag(get(h, rib_o.middle.v).last, 2)
            /\ ~is_rib(get(h, rib_o.middle.v).middle) /\ get(h, rib_o.middle.v).middle.v > 0
    THEN ShowChars(h, get(h, rib_o.middle.v).first, {})
    ELSE show(h, rib_o.middle, path)

\* The arms of the match on a last field that is a number.
ShowRib(h, o, rib_o, path) ==
    CASE rib_o.last.v = VECTOR -> show(h, rib_o.first, path)
      [] rib_o.last.v = PAIR -> Then(show(h, rib_o.first, path),
                                     ShowTail(h, rib_o.middle, 1, path))
      [] rib_o.last.v = PROCEDURE -> ShowProcedure(h, rib_o)
      [] rib_o.last.v = SYMBOL -> ShowSymbol(h, rib_o, path)
      [] rib_o.last.v = STRING_TAG -> ShowChars(h, rib_o.first, {})
      [] rib_o.last.v = SPECIAL /\ o.v \in {FALSE_REF, TRUE_REF, NIL_REF} -> "ok"
      [] OTHER -> ShowFields(h, rib_o, path)

show(h, o, path) ==
    CASE ~is_rib(o) -> "ok"
      [] ~InHeap(h, o.v) -> "panic"
      [] o.v \in path -> "diverge"
      [] is_rib(get(h, o.v).last) -> ShowFields(h, get(h, o.v), path \cup {o.v})
      [] OTHER -> ShowRib(h, o, get(h, o.v), path \cup {o.v})

\* The loop of start_step over the cells of the stack.
RECURSIVE StackLoop(_, _, _)
StackLoop(h, s, seen) ==
    IF ~InHeap(h, s) THEN "panic"
    ELSE IF ~IsTag(get(h, s).last, 0) THEN "ok"
    ELSE IF s \in seen THEN "diverge"
    ELSE Then(show(h, get(h, s).first, {}),
              IF ~is_rib(get(h, s).middle) THEN "ok"
              ELSE StackLoop(h, get(h, s).middle.v, seen \cup {s}))

tracing == TRUE

start_step(h, stack_) == IF tracing THEN StackLoop(h, stack_, {}) ELSE "ok"

\* eprintln! of a rendering whose outcome is r: one line of diagnostics.
Trace(m, r) ==
    IF ~Ok(m) \/ ~tracing THEN m
    ELSE IF r = "panic" THEN Panic(m)
    ELSE IF r = "diverge" THEN Diverge(m)
    ELSE [m EXCEPT !.diag = @ + 1]

TraceShow(m, o) == Trace(m, show(m.heap, o, {}))

TraceStack(m) == Trace(m, start_step(m.heap, m.stack))

(***************************************************************************)
(* Primitives.  incoherent_nargs_stop prints and calls process::exit.      *)
(***************************************************************************)
ARITY_EXIT == 256

DIV_EXIT == 1

\* diag counts the lines written by println! and eprintln!.
incoherent_nargs_stop(m) == IF ~Ok(m) THEN m ELSE Exit([m EXCEPT !.diag = m.diag + 2], ARITY_EXIT)

to_bool(b) == IF b THEN Rib(TRUE_REF) ELSE Rib(FALSE_REF)

SetFieldFirst(m, y, x, k) ==
    IF ~RibOk(m, x) THEN Panic(m)
    ELSE Ret([m EXCEPT !.heap = set(m.heap, x.v, [get(m.heap, x.v) EXCEPT !.first = y])], y)

\* The closures handed to rvm_prim1/2/3, by primitive code.  Each returns the
\* machine with ret set to the closure's result.
\* Arguments are named as the closure names them: the first is popped first.
SetField(m, y, x, k) ==
    IF ~RibOk(m, x) THEN Panic(m)
    ELSE LET new_rib == get(m.heap, x.v)
             upd == CASE k = 9 -> [new_rib EXCEPT !.first = y]
                      [] k = 10 -> [new_rib EXCEPT !.middle = y]
                      [] OTHER -> [new_rib EXCEPT !.last = y]
         IN Ret([m EXCEPT !.heap = set(m.heap, x.v, upd)], y)

\* i32 arithmetic.  checked is the build's overflow-checks setting: a debug
\* build panics on overflow, a release build wraps.  The wrapped results are
\* computed on the four bytes of the two's complement form.
MaxI32 == 2147483647

MinI32 == -MaxI32 - 1

Byte(x, k) == (x \div (256 ^ k)) % 256

FromBytes(b0, b1, b2, b3) ==
    b0 + 256 * b1 + 65536 * b2 + 16777216 * (IF b3 >= 128 THEN b3 - 256 ELSE b3)

AddWrap(x, y) ==
    LET s0 == Byte(x, 0) + Byte(y, 0)
        s1 == Byte(x, 1) + Byte(y, 1) + (s0 \div 256)
        s2 == Byte(x, 2) + Byte(y, 2) + (s1 \div 256)
        s3 == Byte(x, 3) + Byte(y, 3) + (s2 \div 256)
    IN FromBytes(s0 % 256, s1 % 256, s2 % 256, s3 % 256)

NegWrap(y) == IF y = MinI32 THEN MinI32 ELSE -y

SubWrap(x, y) == AddWrap(x, NegWrap(y))

MulWrap(x, y) ==
    LET p0 == Byte(x, 0) * Byte(y, 0)
        p1 == Byte(x, 0) * Byte(y, 1) + Byte(x, 1) * Byte(y, 0) + (p0 \div 256)
        p2 == Byte(x, 0) * Byte(y, 2) + Byte(x, 1) * Byte(y, 1) + Byte(x, 2) * Byte(y, 0)
              + (p1 \div 256)
        p3 == Byte(x, 0) * Byte(y, 3) + Byte(x, 1) * Byte(y, 2) + Byte(x, 2) * Byte(y, 1)
              + Byte(x, 3) * Byte(y, 0) + (p2 \div 256)
    IN FromBytes(p0 % 256, p1 % 256, p2 % 256, p3 % 256)

AddOverflows(x, y) == (x >= 0) = (y >= 0) /\ (AddWrap(x, y) >= 0) # (x >= 0)

SubOverflows(x, y) == (x >= 0) # (y >= 0) /\ (SubWrap(x, y) >= 0) # (x >= 0)

MulOverflows(x, y) ==
    CASE x = 0 \/ y = 0 -> FALSE
      [] x > 0 /\ y > 0 -> x > MaxI32 \div y
      [] x > 0 /\ y < 0 -> y < (MinI32 + x - 1) \div x
      [] x < 0 /\ y > 0 -> x < (MinI32 + y - 1) \div y
      [] OTHER -> x = MinI32 \/ y = MinI32 \/ -x > MaxI32 \div (-y)

\* The result r of an operation that overflows iff ov.
Arith(m, r, ov) == IF ov /\ m.checked THEN Panic(m) ELSE Ret(m, Number(r))

\* Rust's / truncates toward zero.
TruncDiv(a, b) ==
    CASE b = 1 -> a
      [] b = MinI32 -> IF a = MinI32 THEN 1 ELSE 0
      [] (a < 0) = (b < 0) -> a \div b
      [] OTHER -> -(a \div (-b))

\* n as u32: a negative n becomes a number of 2^31 or more, above every i32;
\* MaxI32 stands for it.
ToU32(n) == IF n >= 0 THEN n ELSE MaxI32

\* c.to_string().as_bytes(): the UTF-8 encoding of a char.
Utf8(n) ==
    IF n < 128 THEN <<n>>
    ELSE IF n < 2048 THEN <<192 + (n \div 64), 128 + (n % 64)>>
    ELSE IF n < 65536 THEN <<224 + (n \div 4096), 128 + ((n \div 64) % 64), 128 + (n % 64)>>
    ELSE <<240 + (n \div 262144), 128 + ((n \div 4096) % 64),
           128 + ((n \div 64) % 64), 128 + (n % 64)>>

Prim1(m, code, x) ==
    CASE code = 1 -> Ret(m, x)
      [] code = 5 -> Ret(m, to_bool(is_rib(x)))
      [] code = 6 -> IF RibOk(m, x) THEN Ret(m, get(m.heap, x.v).first) ELSE Panic(m)
      [] code = 7 -> IF RibOk(m, x) THEN Ret(m, get(m.heap, x.v).middle) ELSE Panic(m)
      [] code = 8 -> IF RibOk(m, x) THEN Ret(m, get(m.heap, x.v).last) ELSE Panic(m)
      [] code = 19 -> IF is_rib(x) \/ ~IsChar(ToU32(x.v)) THEN Panic(m)
                      ELSE Ret([m EXCEPT !.out = m.out \o Utf8(x.v)], Number(x.v))
      [] OTHER -> \* 21
                  IF is_rib(x) THEN Exit(m, ARITY_EXIT) ELSE Exit(m, x.v)

\* eqv? that compares the ribs two references lead to, field by field.
Prim2EqvByContent(m, code, y, x) ==
    CASE code \in {9, 10, 11} -> SetField(m, y, x, code)
      [] code = 12 -> Ret(m, to_bool(IF is_rib(x) /\ is_rib(y)
                                     THEN get(m.heap, x.v) = get(m.heap, y.v)
                                     ELSE x = y))
      [] code = 13 -> Ret(m, to_bool(~is_rib(x) /\ ~is_rib(y) /\ x.v < y.v))
      [] code = 14 -> IF is_rib(x) \/ is_rib(y) THEN Panic(m) ELSE Arith(m, AddWrap(x.v, y.v), AddOverflows(x.v, y.v))
      [] code = 15 -> IF is_rib(x) \/ is_rib(y) THEN Panic(m) ELSE Arith(m, SubWrap(x.v, y.v), SubOverflows(x.v, y.v))
      [] code = 16 -> IF is_rib(x) \/ is_rib(y) THEN Panic(m) ELSE Arith(m, MulWrap(x.v, y.v), MulOverflows(x.v, y.v))
      [] OTHER -> IF y = Number(0) THEN Exit([m EXCEPT !.diag = m.diag + 1], DIV_EXIT)
                  ELSE IF is_rib(x) \/ is_rib(y) THEN Panic(m)
                  ELSE IF x.v = MinI32 /\ y.v = -1 THEN Panic(m)
                  ELSE Ret(m, Number(TruncDiv(x.v, y.v)))

Prim2DivideFirst(m, code, y, x) ==
    CASE code \in {9, 10, 11} -> SetField(m, y, x, code)
      [] code = 12 -> Ret(m, to_bool(x = y))
      [] code = 13 -> Ret(m, to_bool(~is_rib(x) /\ ~is_rib(y) /\ x.v < y.v))
      [] code = 14 -> IF is_rib(x) \/ is_rib(y) THEN Panic(m) ELSE Arith(m, AddWrap(x.v, y.v), AddOverflows(x.v, y.v))
      [] code = 15 -> IF is_rib(x) \/ is_rib(y) THEN Panic(m) ELSE Arith(m, SubWrap(x.v, y.v), SubOverflows(x.v, y.v))
      [] code = 16 -> IF is_rib(x) \/ is_rib(y) THEN Panic(m) ELSE Arith(m, MulWrap(x.v, y.v), MulOverflows(x.v, y.v))
      [] OTHER -> IF is_rib(x) \/ is_rib(y) THEN Panic(m)
                  ELSE IF y = Number(0) THEN Exit([m EXCEPT !.diag = m.diag + 1], DIV_EXIT)
                  ELSE IF x.v = MinI32 /\ y.v = -1 THEN Panic(m)
                  ELSE Ret(m, Number(TruncDiv(x.v, y.v)))

Prim2(m, code, y, x) ==
    CASE code \in {9, 10, 11} -> SetField(m, y, x, code)
      [] code = 12 -> Ret(m, to_bool(x = y))
      [] code = 13 -> Ret(m, to_bool(~is_rib(x) /\ ~is_rib(y) /\ x.v < y.v))
      [] code = 14 -> IF is_rib(x) \/ is_rib(y) THEN Panic(m) ELSE Arith(m, AddWrap(x.v, y.v), AddOverflows(x.v, y.v))
      [] code = 15 -> IF is_rib(x) \/ is_rib(y) THEN Panic(m) ELSE Arith(m, SubWrap(x.v, y.v), SubOverflows(x.v, y.v))
      [] code = 16 -> IF is_rib(x) \/ is_rib(y) THEN Panic(m) ELSE Arith(m, MulWrap(x.v, y.v), MulOverflows(x.v, y.v))
      [] OTHER -> \* 17
                  \* i32::MIN / -1 panics in every build
                  IF y = Number(0) THEN Exit([m EXCEPT !.diag = m.diag + 1], DIV_EXIT)
                  ELSE IF is_rib(x) \/ is_rib(y) THEN Panic(m)
                  ELSE IF x.v = MinI32 /\ y.v = -1 THEN Panic(m)
                  ELSE Ret(m, Number(TruncDiv(x.v, y.v)))

Prim3Reversed(m, z, y, x) ==
    Ret([m EXCEPT !.heap = push_rib(m.heap, make_rib(z, y, x))], Rib(Len(m.heap)))

\* Primitive 0: the closure |z, y, x, h| pushes make_rib(x, y, z).
Prim3(m, z, y, x) ==
    Ret([m EXCEPT !.heap = push_rib(m.heap, make_rib(x, y, z))], Rib(Len(m.heap)))

rvm_prim1(m, expected_nargs, code) ==
    IF ~Ok(m) THEN m
    ELSE IF expected_nargs # 1 THEN incoherent_nargs_stop(m)
    ELSE LET m1 == pop_stack(m)
             m2 == IF Ok(m1) THEN Prim1(m1, code, m1.ret) ELSE m1
         IN push_stack(m2, m2.ret)

\* rvm_prim2 that pops its operands before it looks at the number of arguments.
rvm_prim2_check_last(m, expected_nargs, code) ==
    IF ~Ok(m) THEN m
    ELSE LET m1 == pop_stack(m)
             m2 == pop_stack(m1)
             m3 == IF ~Ok(m2) THEN m2
                   ELSE IF expected_nargs # 2 THEN incoherent_nargs_stop(m2)
                   ELSE Prim2(m2, code, m1.ret, m2.ret)
         IN push_stack(m3, m3.ret)

rvm_prim2_in_push_order(m, expected_nargs, code) ==
    IF ~Ok(m) THEN m
    ELSE IF expected_nargs # 2 THEN incoherent_nargs_stop(m)
    ELSE LET m1 == pop_stack(m)
             m2 == pop_stack(m1)
             m3 == IF Ok(m2) THEN Prim2(m2, code, m2.ret, m1.ret) ELSE m2
         IN push_stack(m3, m3.ret)

rvm_prim2(m, expected_nargs, code) ==
    IF ~Ok(m) THEN m
    ELSE IF expected_nargs # 2 THEN incoherent_nargs_stop(m)
    ELSE LET m1 == pop_stack(m)
             m2 == pop_stack(m1)
             m3 == IF Ok(m2) THEN Prim2(m2, code, m1.ret, m2.ret) ELSE m2
         IN push_stack(m3, m3.ret)

rvm_prim3(m, expected_nargs) ==
    IF ~Ok(m) THEN m
    ELSE IF expected_nargs # 3 THEN incoherent_nargs_stop(m)
    ELSE LET m1 == pop_stack(m)
             m2 == pop_stack(m1)
             m3 == pop_stack(m2)
             m4 == IF Ok(m3) THEN Prim3(m3, m1.ret, m2.ret, m3.ret) ELSE m3
         IN push_stack(m4, m4.ret)

\* arg1 that pops its two operands and pushes back the one pushed first.
rvm_arg1_keeps_first(m) ==
    LET m1 == pop_stack(m)
        m2 == pop_stack(m1)
    IN push_stack(m2, m2.ret)

\* The closure of primitive 2: one pop, the value dropped.
rvm_arg1(m) == pop_stack(m)

\* arg2 that writes the popped value in the cell below instead of pushing it.
rvm_arg2_in_place(m) ==
    LET m1 == pop_stack(m)
    IN IF ~Ok(m1) \/ ~InHeap(m1.heap, m1.stack) THEN pop_stack(m1)
       ELSE [m1 EXCEPT !.heap = set(m1.heap, m1.stack,
                                    [get(m1.heap, m1.stack) EXCEPT !.first = m1.ret])]

rvm_arg2(m) ==
    LET m1 == pop_stack(m)
        m2 == pop_stack(m1)
    IN push_stack(m2, m1.ret)

rvm_close(m) ==
    LET m1 == pop_stack(m)
    IN IF ~Ok(m1) THEN m1
       ELSE IF ~RibOk(m1, m1.ret) THEN Panic(m1)
       ELSE LET f == get(m1.heap, m1.ret.v).first
                closure == Len(m1.heap)
                m2 == [m1 EXCEPT !.heap = push_rib(m1.heap,
                                            make_data_rib(f, Rib(m1.stack), PROCEDURE))]
            IN push_stack(m2, Rib(closure))

\* rvm_getchar: read returns no byte at end of input and buf keeps its 0;
\* from_utf8 of a byte above 127 fails and unwrap panics.
rvm_getchar(m) ==
    IF ~Ok(m) THEN m
    ELSE LET eof == m.inp = <<>>
             b == IF eof THEN 0 ELSE Head(m.inp)
             m1 == IF eof THEN m ELSE [m EXCEPT !.inp = Tail(m.inp)]
         IN IF b > 127 THEN Panic(m1)
            ELSE IF b = 0 THEN push_stack(m1, Number(-1))
            ELSE push_stack(m1, Number(b))

\* Primitive 20: pops expected_nargs plain cells into elems, then conses them.
RECURSIVE ListPop(_, _, _)
ListPop(m, n_elems, elems) ==
    IF ~Ok(m) THEN [m |-> m, elems |-> elems]
    ELSE IF n_elems = 0 THEN [m |-> m, elems |-> elems]
    ELSE IF ~InHeap(m.heap, m.stack) THEN [m |-> Panic(m), elems |-> elems]
    ELSE IF get(m.heap, m.stack).last = Number(0)
         THEN LET m1 == pop_stack(m)
              IN ListPop(m1, n_elems - 1, Append(elems, m1.ret))
    ELSE [m |-> Exit([m EXCEPT !.diag = m.diag + 2], ARITY_EXIT), elems |-> elems]

RECURSIVE ListCons(_, _)
ListCons(m, elems) ==
    IF elems = <<>> THEN m ELSE ListCons(push_aux(m, Head(elems)), Tail(elems))

Reverse(s) == [i \in 1..Len(s) |-> s[Len(s) + 1 - i]]

\* A list primitive that conses the elements last popped first.
rvm_list_as_popped(m, expected_nargs) ==
    LET p == ListPop(m, expected_nargs, <<>>)
        m1 == ListCons([p.m EXCEPT !.aux = NIL_REF], Reverse(p.elems))
    IN push_stack(m1, Rib(m1.aux))

rvm_list(m, expected_nargs) ==
    LET p == ListPop(m, expected_nargs, <<>>)
        m1 == ListCons([p.m EXCEPT !.aux = NIL_REF], p.elems)
    IN push_stack(m1, Rib(m1.aux))

\* The arity primitives 2, 3 and 4 test themselves.
NargsCheck(m, expected_nargs, arity) ==
    IF Ok(m) /\ expected_nargs # arity THEN incoherent_nargs_stop(m) ELSE m

\* code is a u8 and expected_nargs a u32.
primitives(m, code, expected_nargs) ==
    CASE code = 0 -> rvm_prim3(m, expected_nargs)
      [] code \in {1, 5, 6, 7, 8, 19, 21} -> rvm_prim1(m, expected_nargs, code)
      [] code = 2 -> LET m1 == NargsCheck(m, expected_nargs, 2) IN rvm_arg1(m1)
      [] code = 3 -> LET m1 == NargsCheck(m, expected_nargs, 2) IN rvm_arg2(m1)
      [] code = 4 -> LET m1 == NargsCheck(m, expected_nargs, 1) IN rvm_close(m1)
      [] code \in 9..17 -> rvm_prim2(m, expected_nargs, code)
      [] code = 18 -> rvm_getchar(m)
      [] code = 20 -> rvm_list(m, expected_nargs)
      [] OTHER -> Panic(m)

(***************************************************************************)
(* One iteration of the interpreter loop of run_rvm, without its trace     *)
(* output and before the collector's trigger: the match on pc.first.       *)
(* The machine carries pc as a field (a RibField of the code).             *)
(***************************************************************************)
\* nparams % 2 == 1 with Rust's remainder, which is negative for a negative nparams.
IsVariadic(n) == n > 0 /\ n % 2 = 1

\* nparams >> 1 on an i32.
Shr1(n) == IF n >= 0 THEN n \div 2 ELSE -((1 - n) \div 2)

\* while i < nargs { pop; push on rest; i -= 1 }: i only decreases, so the loop
\* ends by a panic of pop_stack, or, on a cyclic middle chain, runs on while
\* memory lasts (fuel: more pops than the heap had ribs means a cycle).
RECURSIVE RestLoop(_, _, _, _)
RestLoop(m, i, nargs, fuel) ==
    IF ~Ok(m) \/ ~(i < nargs) THEN m
    ELSE IF fuel = 0 THEN Diverge(m)
    ELSE LET m1 == pop_stack(m)
         IN RestLoop(push_aux(m1, m1.ret), i - 1, nargs, fuel - 1)

\* A move of the arguments that keeps the last pushed on top.
RECURSIVE MoveArgsSameOrder(_, _)
MoveArgsSameOrder(m, nparams) ==
    IF ~Ok(m) \/ ~(nparams > 0) THEN m
    ELSE LET m1 == pop_stack(m)
             m2 == MoveArgsSameOrder(m1, nparams - 1)
         IN IF Ok(m2) THEN push_aux(m2, m1.ret) ELSE m2

\* while nparams > 0 { pop; push on s2; nparams -= 1 }
RECURSIVE MoveArgs(_, _)
MoveArgs(m, nparams) ==
    IF ~Ok(m) \/ ~(nparams > 0) THEN m
    ELSE LET m1 == pop_stack(m)
         IN MoveArgs(push_aux(m1, m1.ret), nparams - 1)

\* The call of a user procedure: o is the procedure, c its code rib.
\* c2 as it is allocated for the procedure o.
NewFrame(o) == make_rib(Number(0), Rib(o.v), Number(PAIR))

\* A jump that saves the stack it leaves in its frame cell, as a call does.
JumpFrameSavesStack(m3, o, c, c2_ref, k) ==
    IF k = -1 THEN Panic(m3)
    ELSE IF k = -2 THEN Diverge(m3)
    ELSE [m3 EXCEPT
            !.heap = set(m3.heap, c2_ref,
                         [NewFrame(o) EXCEPT !.first = Rib(m3.stack),
                                                      !.last = get(m3.heap, k).last]),
            !.stack = m3.aux,
            !.pc = get(m3.heap, c.v).last]

\* The frame cell c2 (at c2_ref) of a jump gets the fields of the continuation k.
JumpFrame(m3, o, c, c2_ref, k) ==
    IF k = -1 THEN Panic(m3)
    ELSE IF k = -2 THEN Diverge(m3)
    ELSE [m3 EXCEPT
            !.heap = set(m3.heap, c2_ref,
                         [NewFrame(o) EXCEPT !.first = get(m3.heap, k).first,
                                                      !.last = get(m3.heap, k).last]),
            !.stack = m3.aux,
            !.pc = get(m3.heap, c.v).last]

\* m3: the arguments are moved above the frame cell, s2 is aux.
CallFrame(m3, pcr, o, c, c2_ref) ==
    IF ~Ok(m3) THEN m3
    ELSE IF is_rib(pcr.last)
    THEN [m3 EXCEPT
            !.heap = set(m3.heap, c2_ref,
                         [NewFrame(o) EXCEPT !.first = Rib(m3.stack), !.last = pcr.last]),
            !.stack = m3.aux,
            !.pc = get(m3.heap, c.v).last]
    ELSE JumpFrame(m3, o, c, c2_ref, get_cont(m3.heap, m3.stack))

\* r: the rest list is built on aux; it is pushed on s2.
RestDone(r, c2_ref) == push_aux([r EXCEPT !.aux = c2_ref], Rib(r.aux))

\* m1: c2 is allocated at c2_ref and s2 (aux) is c2.
CallArgs(m1, pcr, o, c, c2_ref, variadic, nparams, nargs) ==
    CallFrame(
        MoveArgs(IF variadic
                 THEN RestDone(RestLoop([m1 EXCEPT !.aux = NIL_REF], 0, nargs, Len(m1.heap) + 1),
                               c2_ref)
                 ELSE m1,
                 nparams),
        pcr, o, c, c2_ref)

\* An arity test that takes every procedure as one of fixed arity.
ArityFixed(variadic, nparams, nargs0) == nparams # nargs0

\* Line 1295: the arity test of a user procedure.
ArityError(variadic, nparams, nargs0) ==
    (~variadic /\ nparams # nargs0) \/ (variadic /\ nparams > nargs0)

CallChecked(m, pcr, o, c, nargs0, variadic, nparams) ==
    IF ArityError(variadic, nparams, nargs0)
    THEN incoherent_nargs_stop(m)
    ELSE CallArgs([m EXCEPT !.heap = push_rib(m.heap, NewFrame(o)),
                            !.aux = Len(m.heap)],
                  pcr, o, c, Len(m.heap), variadic, nparams, nargs0 - nparams)

\* The call of a user procedure: o is the procedure, c its code rib.
CallProc(m, pcr, o, c, nargs0) ==
    IF ~RibOk(m, c) \/ is_rib(get(m.heap, c.v).first) THEN Panic(m)
    ELSE CallChecked(m, pcr, o, c, nargs0,
                     IsVariadic(get(m.heap, c.v).first.v), Shr1(get(m.heap, c.v).first.v))

\* The call of a primitive: c is the procedure's code field, a number.  pc.last
\* is read after the primitive has run.
\* A return that continues at k.last and leaves the callee's frame on the stack.
PrimContKeepFrame(m1, k) ==
    IF k = -1 THEN Panic(m1)
    ELSE IF k = -2 THEN Diverge(m1)
    ELSE [m1 EXCEPT !.pc = get(m1.heap, k).last]

PrimCont(m1, k) ==
    IF k = -1 THEN Panic(m1)
    ELSE IF k = -2 THEN Diverge(m1)
    ELSE [m1 EXCEPT
            !.heap = set(m1.heap, m1.stack,
                         [get(m1.heap, m1.stack) EXCEPT !.middle = get(m1.heap, k).first]),
            !.pc = get(m1.heap, k).last]

PrimNext(m1, pc_last) ==
    IF is_rib(pc_last) \/ pc_last.v # 0
    THEN [m1 EXCEPT !.pc = pc_last]
    ELSE PrimCont(m1, get_cont(m1.heap, m1.stack))

PrimDone(m1) == IF ~Ok(m1) THEN m1 ELSE PrimNext(m1, get(m1.heap, m1.pc.v).last)

CallPrim(m, c, nargs) == PrimDone(primitives(m, c.v % 256, ToU32(nargs)))

ExecCall(m, pcr) ==
    LET m1 == pop_stack(m)
    IN IF ~Ok(m1) THEN m1
       ELSE IF is_rib(m1.ret) THEN Panic(m1)
       ELSE LET nargs == m1.ret.v
                index == get_opnd_ref(m1.heap, pcr.middle, m1.stack)
            IN IF ~InHeap(m1.heap, index) THEN Panic(m1)
               ELSE LET o == get(m1.heap, index).first
                    IN IF ~RibOk(m1, o) THEN Panic(m1)
                       ELSE LET c == get(m1.heap, o.v).first
                            IN IF is_rib(c) THEN CallProc(m1, pcr, o, c, nargs)
                               ELSE CallPrim(m1, c, nargs)

SetPopped(m1, pcr, set_rib_index, set_rib) ==
    IF ~Ok(m1) THEN m1
    ELSE [m1 EXCEPT !.heap = set(m1.heap, set_rib_index, [set_rib EXCEPT !.first = m1.ret]),
                    !.pc = pcr.last]

SetAt(m, pcr, set_rib_index) ==
    IF ~InHeap(m.heap, set_rib_index) THEN Panic(m)
    ELSE SetPopped(pop_stack(m), pcr, set_rib_index, get(m.heap, set_rib_index))

\* set that pops the value first and finds its target on the stack that is left.
ExecSetAfterPop(m, pcr) ==
    IF ~Ok(m) THEN m
    ELSE IF ~InHeap(m.heap, m.stack) \/ ~is_rib(get(m.heap, m.stack).middle)
    THEN pop_stack(m)
    ELSE SetAt(m, pcr, get_opnd_ref(m.heap, pcr.middle, get(m.heap, m.stack).middle.v))

ExecSet(m, pcr) ==
    IF ~Ok(m) THEN m ELSE SetAt(m, pcr, get_opnd_ref(m.heap, pcr.middle, m.stack))

GetAt(m, pcr, index) ==
    IF ~InHeap(m.heap, index) THEN Panic(m)
    ELSE [push_stack(m, get(m.heap, index).first) EXCEPT !.pc = pcr.last]

ExecGet(m, pcr) ==
    IF ~Ok(m) THEN m ELSE GetAt(m, pcr, get_opnd_ref(m.heap, pcr.middle, m.stack))

ExecCnst(m, pcr) == IF ~Ok(m) THEN m ELSE [push_stack(m, pcr.middle) EXCEPT !.pc = pcr.last]

\* A test that takes every false-like value for #f.
IfBranchFalsy(m1, pcr) ==
    IF ~Ok(m1) THEN m1
    ELSE IF m1.ret \in {Rib(FALSE_REF), Number(0), Rib(NIL_REF)} THEN [m1 EXCEPT !.pc = pcr.last]
    ELSE [m1 EXCEPT !.pc = pcr.middle]

IfBranch(m1, pcr) ==
    IF ~Ok(m1) THEN m1
    ELSE IF m1.ret = Rib(FALSE_REF) THEN [m1 EXCEPT !.pc = pcr.last]
    ELSE [m1 EXCEPT !.pc = pcr.middle]

IfPopped(m1, pcr) == IfBranch(TraceShow(m1, m1.ret), pcr)

ExecIf(m, pcr) == IfPopped(pop_stack(m), pcr)

(***************************************************************************)
(* The decoder's readers.  rvm_code is the sequence of the code points of  *)
(* the bytecode string and pos the position of the next one (from 1).      *)
(* A reader returns [ok, val, pos]; ok is FALSE at the end of the input,   *)
(* where decode_char_to_u32 panics.                                        *)
(***************************************************************************)
get_byte(code, p) ==
    IF p > Len(code) THEN [ok |-> FALSE, val |-> 0, pos |-> p]
    ELSE [ok |-> TRUE, val |-> code[p], pos |-> p + 1]

\* A get_code without its floor.
get_code_no_floor(code, p) ==
    LET b == get_byte(code, p)
    IN [b EXCEPT !.val = b.val - 35]

get_code(code, p) ==
    LET b == get_byte(code, p)
        x == b.val - 35
    IN [b EXCEPT !.val = IF x < 0 THEN 57 ELSE x]

RECURSIVE get_int(_, _, _)
get_int(n, code, p) ==
    LET c == get_code(code, p)
        x == c.val
        n46 == n * 46
    IN IF ~c.ok THEN c
       ELSE IF x < 46 THEN [c EXCEPT !.val = n46 + x]
       ELSE get_int(n46 + x - 46, code, c.pos)

\* symbol_ref: -1 where the code panics.
symbol_ref(h, n, symtbl_) ==
    LET tail_ref == list_tail(h, symtbl_, n)
    IN IF ~InHeap(h, tail_ref) \/ ~is_rib(get(h, tail_ref).first) THEN -1
       ELSE get(h, tail_ref).first.v

\* A symbol whose string has no length.
AddSymbolNoLength(h, accum_, n, symtbl_) ==
    LET inner == Len(h)
        h1 == push_rib(h, make_data_rib(Rib(accum_), Number(0), STRING_TAG))
        outer == Len(h1)
        h2 == push_rib(h1, make_data_rib(Rib(FALSE_REF), Rib(inner), SYMBOL))
    IN push_rib(h2, make_data_rib(Rib(outer), Rib(symtbl_), PAIR))

\* The three ribs of a symbol named by the list accum of length n, consed on symtbl.
AddSymbol(h, accum_, n, symtbl_) ==
    LET inner == Len(h)
        h1 == push_rib(h, make_data_rib(Rib(accum_), Number(n), STRING_TAG))
        outer == Len(h1)
        h2 == push_rib(h1, make_data_rib(Rib(FALSE_REF), Rib(inner), SYMBOL))
    IN push_rib(h2, make_data_rib(Rib(outer), Rib(symtbl_), PAIR))

\* while n > 0: n symbols without a name.  Iteration j finds a heap of
\* Len(h) + 3 * j ribs, of which add_symbol reads the length only, and the
\* table left by iteration j - 1; the heap after the loop is h and the three
\* ribs of each iteration in turn.
AnonSymbols(h, n, symtbl_) ==
    LET Before(j) == [i \in 1..(Len(h) + 3 * j) |-> NIL]
        Added(j) == AddSymbol(Before(j), NIL_REF, 0,
                              IF j = 0 THEN symtbl_ ELSE Len(h) + 3 * j - 1)
    IN IF ~(n > 0) THEN [heap |-> h, symtbl |-> symtbl_]
       ELSE [heap |-> h \o [k \in 1..(3 * n) |->
                               Added((k - 1) \div 3)[Len(h) + k]],
             symtbl |-> Len(h) + 3 * n - 1]

\* A width table whose if has the width 12.
WidthIfTwelve(op) ==
    CASE op = 0 -> 20 [] op = 1 -> 30 [] op = 2 -> 0
      [] op = 3 -> 10 [] op = 4 -> 12 [] OTHER -> 4

\* The width table of the instruction decoder, by op.
Width(op) == CASE op = 0 -> 20 [] op = 1 -> 30 [] op = 2 -> 0
               [] op = 3 -> 10 [] op = 4 -> 11 [] OTHER -> 4

\* The inner loop: [op, n, d], op = 6 where the code panics.
RECURSIVE WidthLoop(_, _)
WidthLoop(n, op) ==
    IF op > HALT THEN [op |-> op, n |-> n, d |-> 0]
    ELSE IF n <= Width(op) + 2 THEN [op |-> op, n |-> n, d |-> Width(op)]
    ELSE WidthLoop(n - (Width(op) + 3), op + 1)

\* A set_global that binds the symbol at the head and does not move on.
SetGlobalStay(m, val_ref) ==
    IF ~Ok(m) \/ ~InHeap(m.heap, m.aux) \/ ~RibOk(m, get(m.heap, m.aux).first) THEN Panic(m)
    ELSE [m EXCEPT !.heap = set(m.heap, get(m.heap, m.aux).first.v,
                                [get(m.heap, get(m.heap, m.aux).first.v)
                                   EXCEPT !.first = Rib(val_ref)])]

set_global(m, val_ref) ==
    IF ~Ok(m) THEN m
    ELSE IF ~InHeap(m.heap, m.aux) THEN Panic(m)
    ELSE LET sym_top == get(m.heap, m.aux)
         IN IF ~RibOk(m, sym_top.first) THEN Panic(m)
            ELSE LET top_first == get(m.heap, sym_top.first.v)
                     h1 == set(m.heap, sym_top.first.v, [top_first EXCEPT !.first = Rib(val_ref)])
                 IN IF ~is_rib(sym_top.middle) THEN Panic([m EXCEPT !.heap = h1])
                    ELSE [m EXCEPT !.heap = h1, !.aux = sym_top.middle.v]

\* One iteration of the instruction decoding loop on the machine m, which carries
\* pos and n_field; brk tells that the loop was left by its break.
DecodeOperand(m, w, op, p) ==
    IF w.n >= w.d
    THEN IF w.n = w.d
         THEN LET g == get_int(0, m.code_seq, p)
              IN IF ~g.ok THEN Panic(m) ELSE [m EXCEPT !.n_field = Number(g.val), !.pos = g.pos]
         ELSE LET g == get_int(w.n - w.d - 1, m.code_seq, p)
                  r == symbol_ref(m.heap, ToU32(g.val), m.symtbl)
              IN IF ~g.ok \/ r = -1 THEN Panic(m)
                 ELSE [m EXCEPT !.n_field = Rib(r), !.pos = g.pos]
    ELSE IF op < CNST
         THEN LET r == symbol_ref(m.heap, w.n, m.symtbl)
              IN IF r = -1 THEN Panic(m) ELSE [m EXCEPT !.n_field = Rib(r), !.pos = p]
         ELSE [m EXCEPT !.n_field = Number(w.n), !.pos = p]

\* op > IF: the procedure rib whose code is (n_field, 0, popped).
DecodeProc(m) ==
    LET m1 == pop_stack(m)
    IN IF ~Ok(m1) THEN m1
       ELSE LET inner == Len(m1.heap)
                h1 == push_rib(m1.heap, make_rib(m1.n_field, Number(0), m1.ret))
                proc == Len(h1)
                h2 == push_rib(h1, make_data_rib(Rib(inner), Rib(NIL_REF), PROCEDURE))
                m2 == [m1 EXCEPT !.heap = h2, !.n_field = Rib(proc)]
            IN IF ~InHeap(h2, m2.stack) THEN Panic(m2)
               ELSE IF ~is_rib(get(h2, m2.stack).middle) THEN [m2 EXCEPT !.brk = TRUE]
               ELSE m2

\* The end of an iteration: the instruction rib (op - 1, n_field, next) replaces
\* the first of the top of the build stack.
DecodeEmit(m, op) ==
    IF ~Ok(m) \/ m.brk THEN m
    ELSE IF ~InHeap(m.heap, m.stack) THEN Panic(m)
    ELSE LET top_stack == get(m.heap, m.stack)
             new_rib_ref == Len(m.heap)
             h1 == push_rib(m.heap, make_op_rib(op - 1, m.n_field, top_stack.first))
         IN [m EXCEPT !.heap = set(h1, m.stack, [top_stack EXCEPT !.first = Rib(new_rib_ref)])]

DecodeStep(m) ==
    LET c == get_code(m.code_seq, m.pos)
        x == c.val
        w == WidthLoop(x, CALL)
    IN IF ~c.ok \/ w.op > HALT THEN Panic(m)
       ELSE IF x > 90
       THEN LET m1 == pop_stack([m EXCEPT !.pos = c.pos])
            IN DecodeEmit([m1 EXCEPT !.n_field = m1.ret], w.op)
       ELSE LET m1 == IF w.op = CALL THEN push_stack(m, Number(0)) ELSE m
                op1 == IF w.op = CALL THEN w.op + 1 ELSE w.op
                m2 == DecodeOperand(m1, w, op1, c.pos)
            IN IF ~Ok(m2) THEN m2
               ELSE IF op1 > IF_OP THEN DecodeEmit(DecodeProc(m2), IF_OP)
               ELSE DecodeEmit(m2, op1)

\* After the decoding loop: the first pc, the four globals, the primordial
\* continuation.  aux is symtbl here.
Setup(m) ==
    IF ~RibOk(m, m.n_field) THEN Panic(m)
    ELSE LET n_first == get(m.heap, m.n_field.v).first
         IN IF ~RibOk(m, n_first) THEN Panic(m)
            ELSE LET pc0 == get(m.heap, n_first.v).last
                     prim0 == Len(m.heap)
                     m1 == [m EXCEPT !.heap = push_rib(m.heap,
                                 make_data_rib(Number(0), Rib(m.symtbl), PROCEDURE)),
                               !.aux = m.symtbl, !.pc = pc0]
                     m2 == set_global(m1, prim0)
                     m3 == set_global(m2, FALSE_REF)
                     m4 == set_global(m3, TRUE_REF)
                     m5 == set_global(m4, NIL_REF)
                 IN IF ~Ok(m5) THEN m5
                    ELSE LET halt_instr == Len(m5.heap)
                             h1 == push_rib(m5.heap, make_op_rib(HALT, Number(0), Number(0)))
                             primordial_cont == make_op_rib(CALL, Number(0), Rib(halt_instr))
                         IN [m5 EXCEPT !.heap = push_rib(h1, primordial_cont),
                                       !.stack = Len(h1),
                                       !.symtbl = m5.aux]

(***************************************************************************)
(* The state of run_rvm.                                                   *)
(*   rvm_code, pos        the bytecode and the reader's position           *)
(*   heap                 rib_heap                                         *)
(*   stack, pc, symtbl    the three roots (pc is a RibField)               *)
(*   accum, n_acc         the name being read and its length               *)
(*   n_field              the decoder's operand                            *)
(*   size_of_heap, gc_count, step_count   the loop's counters              *)
(*   status, exit_code    where the program is, and its exit code          *)
(*   inp, out, diag       stdin, the bytes put on stdout, and the number   *)
(*                        of lines written by println! and eprintln!       *)
(*   checked              whether the build checks i32 overflow            *)
(*   pre, mid, fwd        history: the roots and heap before the last      *)
(*                        iteration, after its instruction and before the  *)
(*                        collector's trigger, and the collector's last    *)
(*                        index_correspondence                             *)
(***************************************************************************)
VARIABLES rvm_code, pos, heap, stack, pc, symtbl, accum, n_acc, n_field,
          size_of_heap, gc_count, step_count, status, exit_code,
          inp, out, diag, checked, pre, mid, fwd

vars == <<rvm_code, pos, heap, stack, pc, symtbl, accum, n_acc, n_field,
          size_of_heap, gc_count, step_count, status, exit_code,
          inp, out, diag, checked, pre, mid, fwd>>

\* The machine of the current state.
Machine ==
    [heap |-> heap, stack |-> stack, pc |-> pc, symtbl |-> symtbl, status |-> "run",
     code |-> 0, ret |-> Number(0), aux |-> NIL_REF, inp |-> inp, out |-> out,
     diag |-> diag, checked |-> checked, pos |-> pos, n_field |-> n_field,
     brk |-> FALSE, code_seq |-> rvm_code]

Snapshot(m, done, gc) ==
    [heap |-> m.heap, stack |-> m.stack, pc |-> m.pc, symtbl |-> m.symtbl,
     size |-> size_of_heap, done |-> done, gc |-> gc]

NoSnapshot ==
    [heap |-> <<>>, stack |-> 0, pc |-> Number(0), symtbl |-> 0, size |-> 0,
     done |-> FALSE, gc |-> FALSE]

\* tracing and debug are set before the loop: every iteration writes its
\* stack line and its instruction line.
\* The machine m becomes the state; the decoder's and the loop's own variables
\* are set by the actions.
Commit(m) ==
    /\ heap' = m.heap
    /\ stack' = m.stack
    /\ pc' = m.pc
    /\ symtbl' = m.symtbl
    /\ status' = m.status
    /\ exit_code' = m.code
    /\ inp' = m.inp
    /\ out' = m.out
    /\ diag' = m.diag
    /\ pos' = m.pos
    /\ n_field' = m.n_field

\* Lines 1407-1418: the collector runs when the heap has more than doubled.
\* pc.get_rib_ref() panics on a number, garbage_collect on a dangling index.
\* A trigger that fires as soon as the heap has doubled.
TriggerAtDouble(m) == 2 * size_of_heap <= Len(m.heap)

Trigger(m) == 2 * size_of_heap < Len(m.heap)

Collected(m, r) ==
    IF ~r.ok THEN [m |-> Panic(m), size |-> size_of_heap, map |-> r.map]
    ELSE [m |-> [m EXCEPT !.heap = r.heap, !.stack = r.stack,
                          !.pc = Rib(r.pc), !.symtbl = r.symtbl],
          size |-> r.size, map |-> r.map]

Collect(m) ==
    IF ~is_rib(m.pc) THEN [m |-> Panic(m), size |-> size_of_heap, map |-> fwd]
    ELSE Collected(m, garbage_collect(m.heap, m.stack, m.pc.v, m.symtbl))

\* The collection at the end of an iteration: c is what Collect made of m.
FinishCollect(m, c) ==
    /\ Commit(c.m)
    /\ size_of_heap' = c.size
    /\ fwd' = c.map
    /\ gc_count' = gc_count + 1
    /\ mid' = Snapshot(m, TRUE, TRUE)

\* The end of an iteration whose instruction left the machine m.
Finish(m) ==
    /\ pre' = Snapshot(Machine, TRUE, FALSE)
    /\ step_count' = step_count + 1
    /\ UNCHANGED <<rvm_code, accum, n_acc, checked>>
    /\ IF Ok(m) /\ Trigger(m)
       THEN FinishCollect(m, Collect(m))
       ELSE /\ Commit(m)
            /\ mid' = Snapshot(m, Ok(m), FALSE)
            /\ UNCHANGED <<size_of_heap, fwd, gc_count>>

(***************************************************************************)
(* The decoder's actions.                                                  *)
(***************************************************************************)
DecodeVarsUnchanged ==
    UNCHANGED <<rvm_code, size_of_heap, gc_count, step_count, checked, pre, mid, fwd>>

\* Lines 1051-1076: the count of anonymous symbols and their loop.
SymtblAnon ==
    /\ status = "anon"
    /\ LET g == get_int(0, rvm_code, pos)
           a == AnonSymbols(heap, g.val, NIL_REF)
       IN IF ~g.ok THEN Commit(Panic(Machine))
          ELSE Commit([Machine EXCEPT !.heap = a.heap, !.symtbl = a.symtbl,
                                      !.pos = g.pos, !.status = "names"])
    /\ accum' = NIL_REF
    /\ n_acc' = 0
    /\ DecodeVarsUnchanged

\* Lines 1077-1129: one character of the names; at ';' the last symbol and the
\* build stack's first rib.
SymtblChar ==
    /\ status = "names"
    /\ LET b == get_byte(rvm_code, pos)
       IN IF ~b.ok THEN Commit(Panic(Machine)) /\ UNCHANGED <<accum, n_acc>>
          ELSE IF b.val = 44
          THEN LET h1 == AddSymbol(heap, accum, n_acc, symtbl)
               IN /\ Commit([Machine EXCEPT !.heap = h1, !.symtbl = Len(h1) - 1,
                                            !.pos = b.pos, !.status = "names"])
                  /\ accum' = NIL_REF
                  /\ n_acc' = 0
          ELSE IF b.val = 59
          THEN LET h1 == AddSymbol(heap, accum, n_acc, symtbl)
                   h2 == push_rib(h1, make_data_rib(Number(6), Number(6), 6))
               IN /\ Commit([Machine EXCEPT !.heap = h2, !.symtbl = Len(h1) - 1,
                                            !.stack = Len(h1),
                                            !.pos = b.pos, !.status = "decode"])
                  /\ UNCHANGED <<accum, n_acc>>
          ELSE /\ Commit([Machine EXCEPT
                            !.heap = push_rib(heap, make_data_rib(Number(b.val), Rib(accum), PAIR)),
                            !.pos = b.pos, !.status = "names"])
               /\ accum' = Len(heap)
               /\ n_acc' = n_acc + 1
    /\ DecodeVarsUnchanged

\* Lines 1131-1206: one iteration of the instruction decoding loop.
DecodeCommit(m) ==
    Commit(IF Ok(m) THEN [m EXCEPT !.status = IF m.brk THEN "setup" ELSE "decode"] ELSE m)

DecodeInstr ==
    /\ status = "decode"
    /\ DecodeCommit(DecodeStep(Machine))
    /\ UNCHANGED <<accum, n_acc>>
    /\ DecodeVarsUnchanged

\* Lines 1209-1255: the globals, the primordial continuation, the trace of pc
\* and the first collection.
StartCollect(m, c) ==
    IF ~Ok(m)
    THEN Commit(m) /\ UNCHANGED <<size_of_heap, fwd, gc_count, pre, mid>>
    ELSE /\ Commit(c.m)
         /\ size_of_heap' = c.size
         /\ fwd' = c.map
         /\ gc_count' = 1
         /\ pre' = Snapshot(Machine, TRUE, FALSE)
         /\ mid' = Snapshot(m, TRUE, TRUE)

StartTraced(m) == StartCollect(m, IF Ok(m) THEN Collect(m) ELSE [m |-> m])

Start ==
    /\ status = "setup"
    /\ StartTraced(TraceShow(Setup(Machine), Setup(Machine).pc))
    /\ UNCHANGED <<rvm_code, accum, n_acc, step_count, checked>>

(***************************************************************************)
(* The interpreter's actions: one per instruction of the match on          *)
(* pc.first, each a whole iteration of the loop.                           *)
(***************************************************************************)
MaxSteps == 60

\* The fetch at the top of the loop succeeds and finds opcode op.
Fetch(op) ==
    /\ status = "run"
    /\ step_count < MaxSteps
    /\ is_rib(pc) /\ InHeap(heap, pc.v)
    /\ ~is_rib(get(heap, pc.v).first)
    /\ get(heap, pc.v).first.v = op

PcRib == get(heap, pc.v)

\* The machine after start_step.
Stepped == TraceStack(Machine)

ExecHalt(m) == IF Ok(m) THEN [Trace(m, "ok") EXCEPT !.status = "halt"] ELSE m

Halt == Fetch(HALT) /\ Finish(ExecHalt(Stepped))

Call == Fetch(CALL) /\ Finish(ExecCall(TraceShow(Stepped, PcRib.middle), PcRib))

Set == Fetch(SET) /\ Finish(ExecSet(TraceShow(Stepped, PcRib.middle), PcRib))

Get == Fetch(GET) /\ Finish(ExecGet(TraceShow(Stepped, PcRib.middle), PcRib))

Cnst == Fetch(CNST) /\ Finish(ExecCnst(TraceShow(Stepped, PcRib.middle), PcRib))

If == Fetch(IF_OP) /\ Finish(ExecIf(Stepped, PcRib))

\* The fetch panics (pc is no reference to a rib whose first is a number), or
\* the match falls to its last arm.
BadInstr ==
    /\ status = "run"
    /\ step_count < MaxSteps
    /\ ~(\E op \in CALL..HALT : Fetch(op))
    /\ Finish(IF Ok(Stepped) THEN Panic(Stepped) ELSE Stepped)

(***************************************************************************)
(* Bytecode inputs.  An instruction is written as the codes the decoder    *)
(* reads for it; a program lists its instructions in the order they run    *)
(* and the bytecode holds them last first, each code as the character      *)
(* code + 35.  Symbol 0 is bound to primitive 0 (rib), symbols 1, 2, 3 to  *)
(* #f, #t and (); the programs use symbols 4.. as their globals.           *)
(***************************************************************************)
RECURSIVE IntCodes(_, _)
IntCodes(n, last) ==
    IF n < 46 THEN <<IF last THEN n ELSE n + 46>>
    ELSE IntCodes(n \div 46, FALSE) \o <<IF last THEN n % 46 ELSE (n % 46) + 46>>

IntArg(n) == IntCodes(n, TRUE)

JumpSym(n) == <<n>>

JumpSlot(k) == <<20>> \o IntArg(k)

CallSym(n) == <<23 + n>>

SetSlot(k) == <<56>> \o IntArg(k)

SetSym(n) == <<57>> \o IntArg(n)

GetSym(n) == <<70>> \o IntArg(n)

GetSlot(k) == IF k < 10 THEN <<59 + k>> ELSE <<69>> \o IntArg(k)

Const(n) == IF n < 11 THEN <<72 + n>> ELSE <<83>> \o IntArg(n)

RECURSIVE Stream(_)
Stream(instrs) ==
    IF instrs = <<>> THEN <<>> ELSE Stream(Tail(instrs)) \o Head(instrs)

\* const of a procedure whose code's first field is f and whose body is instrs.
Lambda(f, instrs) == Stream(instrs) \o (IF f < 4 THEN <<86 + f>> ELSE <<90>> \o IntArg(f))

\* if with the branch taken on a value other than #f; the other branch follows.
IfThen(instrs) == Stream(instrs) \o <<91>>

RECURSIVE Chars(_)
Chars(codes) == IF codes = <<>> THEN <<>> ELSE <<Head(codes) + 35>> \o Chars(Tail(codes))

\* The bytecode with nsym + 1 symbols whose entry procedure runs instrs.
Bytecode(nsym, instrs) == Chars(IntArg(nsym)) \o <<59>> \o Chars(Lambda(0, instrs))

\* symbol 4 := primitive k, made by (rib k 0 1)
DefPrim(sym, k) == <<Const(k), Const(0), Const(1), Const(3), CallSym(0), SetSym(sym)>>

NSym == 7

\* Three values pushed before nargs, the last on top.
ArgSets ==
    { <<Const(2), Const(3), Const(4)>>,
      <<Const(6), GetSym(0), Const(7)>>,
      <<Const(1), Const(65), GetSym(1)>>,
      <<Const(1), GetSym(1), GetSym(0)>> }

\* A tail jump to primitive k with nargs on top of three values; the primordial
\* continuation's halt follows.
ProgPrim(k, nargs, args) ==
    Bytecode(NSym, DefPrim(4, k) \o args \o <<Const(nargs), JumpSym(4)>>)

\* A true call of a one-parameter procedure that ends with a tail jump to
\* primitive k applied to its parameter; the result is passed to id.
ProgCall(k) ==
    Bytecode(NSym,
        DefPrim(4, k) \o DefPrim(6, 1)
        \o <<Lambda(2, <<GetSlot(0), Const(1), JumpSym(4)>>), SetSym(5),
             Const(3), Const(9), Const(1), CallSym(5), Const(1), JumpSym(6)>>)

\* A call (tail or not) of a procedure whose code's first field is f, with
\* nargs arguments 1, 2, ...; the procedure returns 8 through id.
ArgConsts(n) == [i \in 1..n |-> Const(i)]

ProgArity(f, nargs, tail) ==
    Bytecode(NSym,
        DefPrim(4, 1)
        \o <<Lambda(f, <<Const(8), Const(1), JumpSym(4)>>), SetSym(5)>>
        \o ArgConsts(nargs)
        \o (IF tail THEN <<Const(nargs), JumpSym(5)>>
            ELSE <<Const(nargs), CallSym(5), Const(1), JumpSym(4)>>))

\* A procedure that calls itself in tail position for ever.
ProgLoop ==
    Bytecode(NSym,
        <<Lambda(0, <<GetSym(5), Const(0), JumpSym(5)>>), SetSym(5), Const(0), JumpSym(5)>>)

\* A loop that stores, with set-field k, in the rib at index ref - 1 (1: #f,
\* 2: #t, 3: ()) either a fresh pair that the stack holds until the next
\* iteration or, when live, the procedure that symbol 6 is bound to.
ProgStore(k, ref, live) ==
    Bytecode(NSym,
        DefPrim(4, k) \o DefPrim(6, 20)
        \o <<Lambda(0, <<GetSym(ref)>>
                       \o (IF live THEN <<GetSym(6)>> ELSE <<Const(7), Const(1), CallSym(6)>>)
                       \o <<Const(2), CallSym(4), Const(0), JumpSym(5)>>),
             SetSym(5), Const(0), JumpSym(5)>>)

\* if on the value that the instruction test pushes: a global (1: #f, 2: #t,
\* 3: (), 0: a procedure) or a constant.
ProgIf(test) ==
    Bytecode(NSym,
        DefPrim(4, 1)
        \o <<test, IfThen(<<Const(1), Const(1), JumpSym(4)>>),
             Const(2), Const(1), JumpSym(4)>>)

\* get and set of stack slots and of a global.
ProgSlots ==
    Bytecode(NSym,
        DefPrim(4, 1)
        \o <<Const(5), Const(6), Const(7), SetSlot(2), GetSlot(1), SetSym(5), GetSym(5),
             Const(1), JumpSym(4)>>)

\* A jump to a procedure made by rib whose first instruction has opcode op.
ProgBad(op) ==
    Bytecode(NSym,
        <<Const(0), Const(0), Const(op), Const(0), Const(0), Const(3), CallSym(0),
          Const(3), CallSym(0), Const(0), Const(1), Const(3), CallSym(0),
          Const(0), JumpSlot(0)>>)

\* The entry procedure returns, through set-field0, a pair whose first field
\* is the pair itself.
ProgCycle ==
    Bytecode(NSym,
        DefPrim(4, 9)
        \o <<Const(0), Const(0), Const(0), Const(3), CallSym(0), GetSlot(0),
             Const(2), JumpSym(4)>>)

\* A true call, with the arguments 3 and 9, of a two-parameter procedure that
\* ends with a tail jump to another two-parameter procedure, to which it
\* passes its parameters the second first; that one returns its slot 0
\* through id.
ProgNest ==
    Bytecode(NSym,
        DefPrim(4, 1)
        \o <<Lambda(4, <<GetSlot(0), Const(1), JumpSym(4)>>), SetSym(5),
             Lambda(4, <<GetSlot(1), GetSlot(1), Const(2), JumpSym(5)>>), SetSym(6),
             Const(3), Const(9), Const(2), CallSym(6), Const(1), JumpSym(4)>>)

\* set of the slot n of the stack 7, 6, 5 (7 on top), then get of the slot
\* n - 1 of the stack that is left; the value read is returned through id.
ProgSet(n) ==
    Bytecode(NSym,
        DefPrim(4, 1)
        \o <<Const(5), Const(6), Const(7), SetSlot(n),
             GetSlot(IF n = 0 THEN 0 ELSE n - 1), Const(1), JumpSym(4)>>)

\* The bytecode that run_rvm holds: );'u?>vD?>vRD?>vRA?>vRA?>vR:?>vR=!(:lkm!':lkv6y
Embedded ==
    <<41, 59, 39, 117, 63, 62, 118, 68, 63, 62, 118, 82, 68, 63, 62, 118, 82, 65, 63, 62,
      118, 82, 65, 63, 62, 118, 82, 58, 63, 62, 118, 82, 61, 33, 40, 58, 108, 107, 109, 33,
      39, 58, 108, 107, 118, 54, 121>>

\* The bytecode ;y
EmptyProgram == <<59, 121>>

Programs ==
    {Embedded, EmptyProgram} \cup
    {ProgPrim(k, nargs, args) : k \in 0..22, nargs \in 0..3, args \in ArgSets}
    \cup {ProgPrim(k, nargs, args) : k \in {256, 277, 278}, nargs \in {1, 3}, args \in ArgSets}
    \cup {ProgPrim(20, 4, args) : args \in ArgSets}
    \cup {ProgCall(k) : k \in {1, 2, 5, 20}}
    \cup {ProgArity(f, nargs, tail) : f \in 0..5, nargs \in 0..3, tail \in BOOLEAN}
    \cup {ProgLoop}
    \cup {ProgStore(k, ref, live) : k \in 9..11, ref \in 1..3, live \in BOOLEAN}
    \cup {ProgIf(test) : test \in {GetSym(sym) : sym \in 0..3} \cup {Const(0), Const(1)}}
    \cup {ProgSlots, ProgCycle, ProgNest}
    \cup {ProgSet(n) : n \in 0..3}
    \cup {ProgPrim(17, nargs, <<Const(5), GetSym(0), Const(0)>>) : nargs \in 0..3}
    \cup {ProgBad(op) : op \in {5, 6}}

\* A run: the bytecode, the bytes of stdin, the build's overflow checks.
Runs ==
    {[code |-> p, inp |-> <<>>, checked |-> FALSE] : p \in Programs}
    \cup {[code |-> ProgPrim(18, nargs, <<Const(2), Const(3), Const(4)>>), inp |-> i,
           checked |-> FALSE] : nargs \in 0..1, i \in {<<65>>, <<0>>, <<200>>}}

Init ==
    /\ \E r \in Runs : rvm_code = r.code /\ inp = r.inp /\ checked = r.checked
    /\ pos = 1
    /\ heap = <<FALSE_RIB, TRUE_RIB, NIL>>
    /\ stack = 0
    /\ pc = Number(0)
    /\ symtbl = NIL_REF
    /\ accum = NIL_REF
    /\ n_acc = 0
    /\ n_field = Number(0)
    /\ size_of_heap = 0
    /\ gc_count = 0
    /\ step_count = 0
    /\ status = "anon"
    /\ exit_code = 0
    /\ out = <<>>
    /\ diag = 0
    /\ pre = NoSnapshot
    /\ mid = NoSnapshot
    /\ fwd = <<>>

Next ==
    \/ SymtblAnon
    \/ SymtblChar
    \/ DecodeInstr
    \/ Start
    \/ Halt
    \/ Call
    \/ Set
    \/ Get
    \/ Cnst
    \/ If
    \/ BadInstr

Spec == Init /\ [][Next]_vars

(***************************************************************************)
(* The collector on its own.  The heap holds the three singletons and      *)
(* MaxRibs further ribs; a further rib has any first field, and its middle *)
(* is a number or the next further rib (the last one links to the first).  *)
(* The first field of #f is 0 or a reference stored by set-field.  The     *)
(* collector then runs twice in a row.                                     *)
(***************************************************************************)
MaxRibs == 2

GcFields == {Number(7)} \cup {Rib(i) : i \in 0..(MaxRibs + 2)}

GcHeap(f0, firsts, links) ==
    [k \in 1..(MaxRibs + 3) |->
        IF k = 1 THEN [FALSE_RIB EXCEPT !.first = f0]
        ELSE IF k = 2 THEN TRUE_RIB
        ELSE IF k = 3 THEN NIL
        ELSE make_rib(firsts[k - 3],
                      IF links[k - 3] THEN Rib(3 + ((k - 3) % MaxRibs)) ELSE Number(0),
                      Number(PAIR))]

InitGC ==
    /\ \E f0 \in {Number(0), Rib(MaxRibs + 2)}, firsts \in [1..MaxRibs -> GcFields],
          links \in [1..MaxRibs -> BOOLEAN] :
          heap = GcHeap(f0, firsts, links)
    /\ stack \in 0..(MaxRibs + 2)
    /\ pc \in {Rib(3), Rib(MaxRibs + 2)}
    /\ symtbl = NIL_REF
    /\ rvm_code = <<>>
    /\ inp = <<>>
    /\ checked = FALSE
    /\ pos = 1
    /\ accum = NIL_REF
    /\ n_acc = 0
    /\ n_field = Number(0)
    /\ size_of_heap = 0
    /\ gc_count = 0
    /\ step_count = 0
    /\ status = "fresh"
    /\ exit_code = 0
    /\ out = <<>>
    /\ diag = 0
    /\ pre = NoSnapshot
    /\ mid = NoSnapshot
    /\ fwd = <<>>

\* c is what Collect made of the machine; the next status is to.
GcCommit(c, to) ==
    /\ Commit([c.m EXCEPT !.status = IF @ = "panic" THEN @ ELSE to])
    /\ size_of_heap' = c.size
    /\ fwd' = c.map
    /\ gc_count' = gc_count + 1
    /\ pre' = mid
    /\ mid' = Snapshot(Machine, TRUE, TRUE)
    /\ UNCHANGED <<rvm_code, accum, n_acc, step_count, checked>>

GcFirst == status = "fresh" /\ GcCommit(Collect(Machine), "once")

GcSecond == status = "once" /\ GcCommit(Collect(Machine), "twice")

NextGC == GcFirst \/ GcSecond

SpecGC == InitGC /\ [][NextGC]_vars

(***************************************************************************)
(* The primitives on their own: a stack of three cells w, x, y (y on top)  *)
(* above the primordial cell, two data ribs in the heap, and a pair of     *)
(* primitive codes.  The first code is called on the stack as it is; the   *)
(* operand of the second is pushed as a get instruction pushes it, and the *)
(* second code is called.  Both builds of the integer operators are taken. *)
(***************************************************************************)
PrimNumbers == {0, 1, -1, 2, 3, -7, 46341, 65536, MaxI32, MinI32}

PrimValues ==
    {Number(n) : n \in PrimNumbers} \cup {Rib(FALSE_REF), Rib(TRUE_REF), Rib(3), Rib(4)}

PrimThird == {Number(0), Number(9), Rib(TRUE_REF), Rib(3)}

PrimPairs == {<<0, 6>>, <<0, 7>>, <<0, 8>>, <<9, 6>>, <<10, 7>>, <<11, 8>>,
              <<15, 14>>, <<16, 17>>, <<17, 1>>, <<13, 1>>, <<12, 1>>, <<2, 1>>}

PrimHeap(w, x, y) ==
    <<FALSE_RIB, TRUE_RIB, NIL,
      make_data_rib(Number(7), Number(8), PAIR),
      make_data_rib(Rib(3), Number(1), PAIR),
      make_rib(Number(0), Number(0), Rib(NIL_REF)),
      make_data_rib(w, Rib(5), PAIR),
      make_data_rib(x, Rib(6), PAIR),
      make_data_rib(y, Rib(7), PAIR)>>

InitPrim ==
    /\ rvm_code \in PrimPairs
    /\ \E w \in (IF rvm_code[1] = 0 THEN PrimThird ELSE {Number(5)}),
          x \in PrimValues, y \in PrimValues :
          heap = PrimHeap(w, x, y)
    /\ stack = 8
    /\ checked \in BOOLEAN
    /\ pc = Rib(NIL_REF)
    /\ symtbl = NIL_REF
    /\ inp = <<>>
    /\ pos = 1
    /\ accum = NIL_REF
    /\ n_acc = 0
    /\ n_field = Number(0)
    /\ size_of_heap = 0
    /\ gc_count = 0
    /\ step_count = 0
    /\ status = "prim"
    /\ exit_code = 0
    /\ out = <<>>
    /\ diag = 0
    /\ pre = NoSnapshot
    /\ mid = NoSnapshot
    /\ fwd = <<>>

\* The nargs that the caller pushed for the primitive of this code.
CallNargs(code) == CASE code = 0 -> 3 [] code \in {1, 6, 7, 8} -> 1 [] OTHER -> 2

\* The operand of the second call: the rib x after a field setter, the
\* number y after a subtraction or a multiplication, none otherwise.
Reload(m, h, s, code) ==
    CASE code \in {9, 10, 11} -> push_stack(m, get(h, get(h, s).middle.v).first)
      [] code \in {15, 16} -> push_stack(m, get(h, s).first)
      [] OTHER -> m

\* m is the machine after the call; the next status is to.
PrimCommit(m, to) ==
    /\ Commit(IF Ok(m) THEN [m EXCEPT !.status = to] ELSE m)
    /\ UNCHANGED <<rvm_code, accum, n_acc, size_of_heap, gc_count, checked, fwd>>
    /\ step_count' = step_count + 1

PrimFirst ==
    /\ status = "prim"
    /\ PrimCommit(primitives(Machine, rvm_code[1], CallNargs(rvm_code[1])), "called")
    /\ pre' = Snapshot(Machine, TRUE, FALSE)
    /\ mid' = mid

PrimSecond ==
    /\ status = "called"
    /\ PrimCommit(primitives(Reload(Machine, pre.heap, pre.stack, rvm_code[1]),
                             rvm_code[2], CallNargs(rvm_code[2])), "recalled")
    /\ mid' = Snapshot(Machine, TRUE, FALSE)
    /\ pre' = pre

NextPrim == PrimFirst \/ PrimSecond

SpecPrim == InitPrim /\ [][NextPrim]_vars

(***************************************************************************)
(* The readers and the first pass of the decoder on their own: get_int on  *)
(* every short string of an alphabet of codes, with the n of its call      *)
(* sites, and the symbol table of every short header.                      *)
(***************************************************************************)
MaxInt == 4

MaxNames == 4

\* ! (below 35), # (0), % (2), P (45), Q (46), Z (55), z (87)
IntBytes == {33, 35, 37, 80, 81, 90, 122}

\* , ; a b
NameBytes == {44, 59, 97, 98}

Strings(bytes, max) == UNION {[1..len -> bytes] : len \in 1..max}

\* The counts 0, 1, 2, 2 in two characters, 9 and 24.
Counts == {<<35>>, <<36>>, <<37>>, <<81, 37>>, <<44>>, <<59>>}

\* A header of 48 symbols (the count 47 and one empty name), three jumps to
\* the symbol 0, which leave a build stack of four cells, then one code x of
\* 0..92 and the character of the integer 0 or 1 for the codes that read one.
InstrCodes ==
    {<<82, 36, 59, 35, 35, 35, x + 35, k>> : x \in 0..92, k \in {35, 36}}

InitDecode ==
    /\ \/ /\ status = "int"
          /\ rvm_code \in Strings(IntBytes, MaxInt)
          /\ n_acc \in 0..2
       \/ /\ status = "anon"
          /\ \E count \in Counts : \E names \in Strings(NameBytes, MaxNames) :
                rvm_code = count \o names
          /\ n_acc = 0
       \/ /\ status = "anon"
          /\ rvm_code \in InstrCodes
          /\ n_acc = 0
    /\ inp = <<>>
    /\ checked = FALSE
    /\ pos = 1
    /\ heap = <<FALSE_RIB, TRUE_RIB, NIL>>
    /\ stack = 0
    /\ pc = Number(0)
    /\ symtbl = NIL_REF
    /\ accum = NIL_REF
    /\ n_field = Number(0)
    /\ size_of_heap = 0
    /\ gc_count = 0
    /\ step_count = 0
    /\ exit_code = 0
    /\ out = <<>>
    /\ diag = 0
    /\ pre = NoSnapshot
    /\ mid = NoSnapshot
    /\ fwd = <<>>

\* n_field = Number(get_int(n, pos)) as the instruction decoder calls it.
ReadIntDone(g) ==
    IF ~g.ok THEN Commit(Panic(Machine))
    ELSE Commit([Machine EXCEPT !.n_field = Number(g.val), !.pos = g.pos, !.status = "read"])

ReadInt ==
    /\ status = "int"
    /\ ReadIntDone(get_int(n_acc, rvm_code, pos))
    /\ UNCHANGED <<accum, n_acc>>
    /\ DecodeVarsUnchanged

NextDecode == ReadInt \/ SymtblAnon \/ SymtblChar \/ DecodeInstr

SpecDecode == InitDecode /\ [][NextDecode]_vars

(***************************************************************************)
(* Properties.  "Between instructions" is a state whose status is "run":   *)
(* the decoder and the first collection are done and the loop is at the    *)
(* top of an iteration.  pre and mid hold the machine before the last      *)
(* iteration and after its instruction, before the trigger of the          *)
(* collector; mid.gc says that the collector then ran, and fwd is its      *)
(* index_correspondence.                                                   *)
(***************************************************************************)
Running == status = "run"

RefFields(h) == {<<i, k>> \in (1..Len(h)) \X (1..3) : is_rib(Fields(h[i])[k])}

RefsBelow(h) == \A ik \in RefFields(h) : Fields(h[ik[1]])[ik[2]].v < Len(h)

RootsBelow(h, stack_, pc_, symtbl_) ==
    stack_ < Len(h) /\ symtbl_ < Len(h) /\ (is_rib(pc_) => pc_.v < Len(h))

\* C1: between instructions every reference field of every rib of the heap,
\* the ribs at 0, 1, 2 included, and each of stack, pc and symtbl holds an
\* index below the length of the heap.
RefsInHeap == Running => RefsBelow(heap) /\ RootsBelow(heap, stack, pc, symtbl)

\* The collector has just run on the machine mid and left the present one.
Collected_ == Running /\ mid.gc

Injective(f) == \A a, b \in DOMAIN f : f[a] = f[b] => a = b

\* The rib new is the rib old with its references sent through f.
Relocated(old, new, f) ==
    \A k \in 1..3 :
        IF is_rib(Fields(old)[k])
        THEN /\ Fields(old)[k].v \in DOMAIN f
             /\ Fields(new)[k] = Rib(f[Fields(old)[k].v])
        ELSE Fields(new)[k] = Fields(old)[k]

\* The indices of h reachable from the set of indices from by reference fields.
RECURSIVE Reach(_, _)
Reach(h, from) ==
    LET next == from \cup {Fields(h[i + 1])[k].v :
                              <<i, k>> \in {ik \in from \X (1..3) :
                                               InHeap(h, ik[1]) /\ is_rib(Fields(h[ik[1] + 1])[ik[2]])}}
    IN IF next = from THEN from ELSE Reach(h, next)

Roots(m) == {m.stack, m.symtbl} \cup (IF is_rib(m.pc) THEN {m.pc.v} ELSE {})

Live(m) == {i \in Reach(m.heap, Roots(m)) : InHeap(m.heap, i)}

\* C2: a collection relocates the live graph through an injective map fwd
\* that is the identity on 0, 1, 2: the copy at fwd(i) of every rib i
\* reachable from a root has the same numbers, fwd(r) for every reference r
\* in the same position, and stack, pc, symtbl become fwd of themselves.
RelocatesLiveGraph ==
    Collected_ =>
        /\ Injective(fwd)
        /\ \A i \in 0..2 : fwd[i] = i
        /\ \A i \in Live(mid) :
              /\ i \in DOMAIN fwd
              /\ InHeap(heap, fwd[i])
              /\ Relocated(get(mid.heap, i), get(heap, fwd[i]), fwd)
        /\ stack = fwd[mid.stack] /\ pc = Rib(fwd[mid.pc.v]) /\ symtbl = fwd[mid.symtbl]

\* The indices reachable from the set from by reference fields that do not
\* lead to 0, 1 or 2.
RECURSIVE ReachOutside(_, _)
ReachOutside(h, from) ==
    LET next == from \cup {j \in {Fields(h[ik[1] + 1])[ik[2]].v :
                                   ik \in {x \in from \X (1..3) :
                                              InHeap(h, x[1]) /\ is_rib(Fields(h[x[1] + 1])[x[2]])}} :
                              j > 2}
    IN IF next = from THEN from ELSE ReachOutside(h, next)

Copied(m) == {0, 1, 2} \cup ReachOutside(m.heap, {r \in Roots(m) : r > 2 /\ InHeap(m.heap, r)})

\* A collection of the collector's own specification is done.
GcDone == status \in {"once", "twice"}

SecondCollectionIdentity ==
    status = "twice" =>
        /\ heap = mid.heap
        /\ Len(heap) = Len(mid.heap)
        /\ size_of_heap = mid.size
        /\ stack = mid.stack /\ pc = mid.pc /\ symtbl = mid.symtbl

\* C5 witness: the second collection is done after a first one that dropped
\* a rib and moved another.
SecondCollectionIdentityWitness ==
    /\ status = "twice"
    /\ Len(heap) < Len(pre.heap)
    /\ pre.stack # stack

Singletons(h) == <<get(h, 0), get(h, 1), get(h, 2)>>

\* An iteration of the loop has run its instruction to the end.
Stepped_ == mid.done /\ step_count > 0

\* The instruction of the machine m at its fetch; for a call, nargs on top of
\* the stack, the stack below it, and the procedure the operand names with
\* its code field.
InstrOf(m) == get(m.heap, m.pc.v)

NArgs(m) == get(m.heap, m.stack).first.v

Below(m) == get(m.heap, m.stack).middle.v

Callee(m) == get(m.heap, get_opnd_ref(m.heap, InstrOf(m).middle, Below(m))).first

CalleeCode(m) == get(m.heap, Callee(m).v).first

IsStore(m) ==
    \/ InstrOf(m).first.v = SET
    \/ /\ InstrOf(m).first.v = CALL
       /\ ~is_rib(CalleeCode(m))
       /\ CalleeCode(m).v % 256 \in 9..11

\* C4, as the code has it: after decoding and the first collection the ribs
\* at 0, 1, 2 are (0, 0, 5); an instruction changes them only when it is a
\* set or a call of a set-field primitive 9, 10, 11; and a collection leaves
\* the ribs at 0, 1, 2 where they are with the contents they have.
SingletonsKeptUnlessStored ==
    /\ Running /\ step_count = 0 => Singletons(heap) = <<FALSE_RIB, TRUE_RIB, NIL>>
    /\ Stepped_ /\ Singletons(mid.heap) # Singletons(pre.heap) => IsStore(pre)
    /\ Collected_ => Singletons(heap) = Singletons(mid.heap)

\* C4 witness: a collection has run while #f, #t or () held what a set-field
\* primitive stored.
SingletonsKeptUnlessStoredWitness ==
    /\ Collected_
    /\ gc_count > 1
    /\ Singletons(heap) # <<FALSE_RIB, TRUE_RIB, NIL>>

\* C4: between instructions, for any program, each of the ribs at 0, 1, 2 is
\* (0, 0, 5), and a collection leaves them with the same contents.
SingletonsConstant ==
    /\ Running => Singletons(heap) = <<FALSE_RIB, TRUE_RIB, NIL>>
    /\ Collected_ => Singletons(heap) = Singletons(mid.heap)

\* C6: after an instruction other than halt the collector runs iff the heap
\* is longer than twice the size the previous collection returned; so at the
\* top of every iteration the heap is at most twice the size the most recent
\* collection returned.
CollectsWhenDoubled ==
    /\ Stepped_ => (mid.gc <=> Len(mid.heap) > 2 * mid.size)
    /\ Running => Len(heap) <= 2 * size_of_heap

\* C6 witness: an instruction has left the heap longer than twice the last
\* size and the collector has run.
CollectsWhenDoubledWitness ==
    /\ Running /\ Stepped_ /\ mid.gc
    /\ Len(mid.heap) = 2 * mid.size + 1
    /\ Len(heap) < Len(mid.heap)

\* The last iteration fetched a call instruction; pre is the machine at the
\* fetch.
CallStep ==
    /\ step_count > 0
    /\ is_rib(pre.pc) /\ InHeap(pre.heap, pre.pc.v)
    /\ ~is_rib(InstrOf(pre).first) /\ InstrOf(pre).first.v = CALL

\* The call of m finds nargs and a procedure.
CallReads(m) ==
    /\ InHeap(m.heap, m.stack)
    /\ ~is_rib(get(m.heap, m.stack).first)
    /\ is_rib(get(m.heap, m.stack).middle)
    /\ InHeap(m.heap, get_opnd_ref(m.heap, InstrOf(m).middle, Below(m)))
    /\ RibOk(m, Callee(m))

\* The callee is a user procedure: its code is a rib whose first is a number.
UserCall(m) ==
    /\ CallReads(m)
    /\ RibOk(m, CalleeCode(m))
    /\ ~is_rib(get(m.heap, CalleeCode(m).v).first)

PrimCall(m) == CallReads(m) /\ ~is_rib(CalleeCode(m))

\* The first field of the code of the user procedure: 2 * nparams + variadic.
Params(m) == get(m.heap, CalleeCode(m).v).first.v

\* The cell n cells down the middle chain from s.
RECURSIVE Drop(_, _, _)
Drop(h, s, n) == IF n = 0 THEN s ELSE Drop(h, get(h, s).middle.v, n - 1)

\* The first cell from s down whose last field is a reference: a frame cell.
RECURSIVE FrameFrom(_, _)
FrameFrom(h, s) == IF is_rib(get(h, s).last) THEN s ELSE FrameFrom(h, get(h, s).middle.v)

TrueCallStep ==
    CallStep /\ UserCall(pre) /\ is_rib(InstrOf(pre).last) /\ mid.done

PrimJumpStep ==
    CallStep /\ PrimCall(pre) /\ InstrOf(pre).last = Number(0) /\ mid.done

FrameSaved(frame, below, last_) == frame.first = Rib(below) /\ frame.last = last_

Returned(m, k, top) ==
    /\ m.pc = k.last
    /\ top.middle = k.first
    /\ top.last = Number(PAIR)

\* C7: a true call (last field a reference R) of a user procedure whose arity
\* matches makes a frame cell, below the arguments of the new stack, whose
\* first is the caller's stack once nargs and the arguments are popped and
\* whose last is R; a tail jump to a primitive above a frame cell k continues
\* at k.last with a stack of one cell, the result, on k.first.
CallReturnProtocol ==
    /\ TrueCallStep =>
          /\ FrameSaved(get(mid.heap, Len(pre.heap)),
                        Drop(pre.heap, pre.stack, 1 + NArgs(pre)), InstrOf(pre).last)
          /\ Drop(mid.heap, mid.stack, NArgs(pre) + (Params(pre) % 2)) = Len(pre.heap)
          /\ mid.pc = get(pre.heap, CalleeCode(pre).v).last
    /\ PrimJumpStep =>
          /\ Returned(mid, get(pre.heap, FrameFrom(pre.heap, Below(pre))),
                      get(mid.heap, mid.stack))
          /\ CalleeCode(pre).v = 1 =>
                get(mid.heap, mid.stack).first = get(pre.heap, Below(pre)).first

\* C7 witness: a procedure entered by a true call has finished with a jump
\* to a primitive, and the loop goes on at the continuation of the call.
CallReturnProtocolWitness ==
    /\ Running /\ PrimJumpStep
    /\ is_rib(get(pre.heap, FrameFrom(pre.heap, Below(pre))).first)
    /\ mid.pc = get(pre.heap, FrameFrom(pre.heap, Below(pre))).last
    /\ InstrOf(mid).first = Number(CNST)

\* The arguments of the call of m in the order they were pushed.
Args(m) == [i \in 1..NArgs(m) |-> get(m.heap, Drop(m.heap, Below(m), NArgs(m) - i)).first]

\* The elements of the list r, which ends with ().
RECURSIVE ListSeq(_, _)
ListSeq(h, r) ==
    IF r = Rib(NIL_REF) THEN <<>>
    ELSE <<get(h, r.v).first>> \o ListSeq(h, get(h, r.v).middle)

RECURSIVE ProperList(_, _, _)
ProperList(h, r, fuel) ==
    \/ r = Rib(NIL_REF)
    \/ /\ fuel > 0 /\ is_rib(r) /\ InHeap(h, r.v)
       /\ get(h, r.v).last = Number(PAIR)
       /\ ProperList(h, get(h, r.v).middle, fuel - 1)

VariadicCallStep ==
    /\ CallStep /\ UserCall(pre)
    /\ Params(pre) % 2 = 1
    /\ NArgs(pre) >= Params(pre) \div 2

\* The frame of m: np cells of arguments, then the cell of the rest list,
\* then the frame cell c2.
RestFrame(m, np, c2, args) ==
    /\ get(m.heap, Drop(m.heap, m.stack, np)).middle = Rib(c2)
    /\ ProperList(m.heap, get(m.heap, Drop(m.heap, m.stack, np)).first, Len(m.heap))
    /\ ListSeq(m.heap, get(m.heap, Drop(m.heap, m.stack, np)).first)
          = SubSeq(args, np + 1, Len(args))
    /\ [i \in 1..np |-> get(m.heap, Drop(m.heap, m.stack, i - 1)).first]
          = SubSeq(args, 1, np)

\* C8: a call of a variadic user procedure with nargs >= nparams completes,
\* and the new frame holds directly above the frame cell one cell whose
\* first is the proper list of the trailing nargs - nparams arguments in the
\* order they were pushed, () when nargs = nparams, with the nparams other
\* arguments above it.
RestListBuilt ==
    VariadicCallStep =>
        /\ mid.done
        /\ RestFrame(mid, Params(pre) \div 2, Len(pre.heap), Args(pre))

\* The call of a user procedure whose arity the call does not meet.
Mismatch(f, nargs) == IF f % 2 = 1 THEN nargs < f \div 2 ELSE nargs # f \div 2

ArityStopped ==
    /\ status = "exit" /\ exit_code = ARITY_EXIT
    /\ heap = pre.heap
    /\ stack = Below(pre)

\* C9: a call of a fixed-arity user procedure with nargs # nparams, or of a
\* variadic one with nargs < nparams, ends the run with exit code 256 with
\* no rib allocated and nothing but nargs popped; any other call of a user
\* procedure raises no arity error.
EnforcesArity ==
    CallStep /\ UserCall(pre) =>
        IF Mismatch(Params(pre), NArgs(pre)) THEN ArityStopped
        ELSE ~(status = "exit" /\ exit_code = ARITY_EXIT)

\* C9 witness: a variadic procedure of two parameters was called with one
\* argument and the run has ended with exit code 256.
EnforcesArityWitness ==
    /\ CallStep /\ UserCall(pre)
    /\ Params(pre) = 5 /\ NArgs(pre) = 1
    /\ ArityStopped

\* The arity of primitive k in the table of the primitives.
PrimArity(k) ==
    CASE k = 0 -> 3
      [] k \in {2, 3} \cup (9..17) -> 2
      [] k = 18 -> 0
      [] OTHER -> 1

\* C10: a call of a primitive other than 20 (list) with nargs different from
\* its arity ends the run with exit code 256 and nothing of the primitive's
\* effect: no rib allocated, nothing but nargs popped; a call of primitive 20
\* raises no arity error whatever nargs is.
PrimitivesCheckArity ==
    CallStep /\ PrimCall(pre) =>
        /\ /\ CalleeCode(pre).v \in (0..21) \ {20}
           /\ NArgs(pre) # PrimArity(CalleeCode(pre).v)
           => ArityStopped
        /\ CalleeCode(pre).v = 20 => ~(status = "exit" /\ exit_code = ARITY_EXIT)

\* The run of the bytecode that run_rvm holds, on an empty stdin.
EmbeddedRun == rvm_code = Embedded /\ inp = <<>>

\* C11: the run of the embedded bytecode on an empty stdin meets no arity
\* error, no other fatal error and no panic, and writes no diagnostics.
EmbeddedRunsClean ==
    EmbeddedRun => status \notin {"exit", "panic", "diverge"} /\ diag = 0

\* C12: decoding the bytecode ;y makes no anonymous symbol, and the run ends
\* at a halt with no panic, no fatal error and no output.
EmptyProgramHalts ==
    rvm_code = EmptyProgram =>
        /\ status \notin {"exit", "panic", "diverge"}
        /\ status = "names" => Len(heap) = 3
        /\ status \in {"run", "halt"} => InstrOf(Machine).first = Number(HALT)
        /\ out = <<>>

\* The decoder and the setup are done and the first collection has run; pre
\* is the machine the decoder left, mid the machine before the collection.
SetupDone == Running /\ step_count = 0

\* The value of symbol k of the table the decoder built, after the setup.
GlobalValue(k) == get(mid.heap, get(pre.heap, Drop(pre.heap, pre.symtbl, k)).first.v).first

\* C13, as the code has it: symbol 0 of the table is bound to a new
\* procedure rib whose code is the number 0 (primitive 0, rib) and whose
\* middle is the symbol table, and symbols 1, 2, 3 to #f, #t and ().
GlobalsBound ==
    SetupDone =>
        /\ GlobalValue(0) = Rib(Len(pre.heap))
        /\ get(mid.heap, Len(pre.heap)) = make_data_rib(Number(0), Rib(pre.symtbl), PROCEDURE)
        /\ GlobalValue(1) = Rib(FALSE_REF)
        /\ GlobalValue(2) = Rib(TRUE_REF)
        /\ GlobalValue(3) = Rib(NIL_REF)

\* C13 witness: the setup of the embedded bytecode is done and its symbol 0
\* holds a procedure other than the one the decoder made.
GlobalsBoundWitness ==
    /\ SetupDone /\ rvm_code = Embedded
    /\ GlobalValue(0) # n_field
    /\ GlobalValue(3) = Rib(NIL_REF)

\* C13: symbol 0 has the entry procedure that the decoder produced as its
\* value, and symbols 1, 2, 3 have #f, #t and ().
GlobalsBoundEntry ==
    SetupDone =>
        /\ GlobalValue(0) = n_field
        /\ GlobalValue(1) = Rib(FALSE_REF)
        /\ GlobalValue(2) = Rib(TRUE_REF)
        /\ GlobalValue(3) = Rib(NIL_REF)

(***************************************************************************)
(* The primitives on their own (SpecPrim).  pre is the machine before the  *)
(* first call, with the cells w, x, y pushed in this order; mid is the     *)
(* machine after the first call.                                           *)
(***************************************************************************)
Top(h, s) == get(h, s).first

ArgW == Top(pre.heap, get(pre.heap, get(pre.heap, pre.stack).middle.v).middle.v)

ArgX == Top(pre.heap, get(pre.heap, pre.stack).middle.v)

ArgY == Top(pre.heap, pre.stack)

FirstCalled(code) == rvm_code[1] = code /\ pre.done

Failed == status \in {"panic", "exit", "diverge"}

\* The ribs of h are the first ribs of g, unchanged.
Extends(g, h) == Len(g) >= Len(h) /\ SubSeq(g, 1, Len(h)) = h

\* C14: after a, b, c are pushed, primitive 0 called with nargs 3 pushes a
\* reference to a rib appended to the heap whose fields are a, b, c, and on
\* that reference primitives 6, 7 and 8 return a, b and c; no call fails.
RoundTripRib ==
    FirstCalled(0) =>
        /\ ~Failed
        /\ status = "called" =>
              /\ Top(heap, stack) = Rib(Len(pre.heap))
              /\ Extends(heap, pre.heap)
              /\ get(heap, Len(pre.heap)) = make_rib(ArgW, ArgX, ArgY)
        /\ status = "recalled" =>
              Top(heap, stack) = CASE rvm_code[2] = 6 -> ArgW
                                   [] rvm_code[2] = 7 -> ArgX
                                   [] OTHER -> ArgY

RoundTripRibWitness ==
    /\ FirstCalled(0)
    /\ status = "recalled"
    /\ rvm_code[2] = 7
    /\ ArgW = Number(9)
    /\ ArgX = Rib(4)
    /\ ArgY = Number(MinI32)
    /\ Top(heap, stack) = Rib(4)

\* The rib r with its field of the setter code (9, 10, 11) replaced by v.
WithField(r, code, v) ==
    CASE code = 9 -> [r EXCEPT !.first = v]
      [] code = 10 -> [r EXCEPT !.middle = v]
      [] OTHER -> [r EXCEPT !.last = v]

\* C15: primitives 9, 10, 11 on a rib reference x and a value v set the
\* first, middle, last field of x to v, leave the other fields of x and
\* every other existing rib as they were, and push v; primitives 6, 7, 8
\* on x then return v.
SetFieldLaw ==
    \A code \in {9, 10, 11} :
        FirstCalled(code) /\ is_rib(ArgX) =>
            /\ ~Failed
            /\ status = "called" =>
                  /\ Top(heap, stack) = ArgY
                  /\ get(heap, ArgX.v) = WithField(get(pre.heap, ArgX.v), code, ArgY)
                  /\ \A i \in 0..(Len(pre.heap) - 1) :
                        i # ArgX.v => get(heap, i) = get(pre.heap, i)
            /\ status = "recalled" => Top(heap, stack) = ArgY

SetFieldLawWitness ==
    /\ FirstCalled(10)
    /\ ArgX = Rib(4)
    /\ ArgY = Rib(3)
    /\ status = "recalled"
    /\ get(heap, 4) = make_rib(Rib(3), Rib(3), Number(PAIR))
    /\ get(pre.heap, 4).middle = Number(1)
    /\ Top(heap, stack) = Rib(3)

BothIntegers == ~is_rib(ArgX) /\ ~is_rib(ArgY)

\* The two calls returned an integer each, the second one the integer a.
LawHolds(a) ==
    /\ ~Failed
    /\ status = "called" => ~is_rib(Top(heap, stack))
    /\ status = "recalled" => ~is_rib(Top(mid.heap, mid.stack)) /\ Top(heap, stack) = a

\* C18: for all 32-bit integers a and b, primitive 15 on a, b and then
\* primitive 14 on the result and b return a, and for b # 0 primitive 16 on
\* a, b and then primitive 17 on the result and b return a; every one of
\* these calls returns an integer and none fails.
ArithmeticLaws ==
    /\ FirstCalled(15) /\ BothIntegers => LawHolds(ArgX)
    /\ FirstCalled(16) /\ BothIntegers /\ ArgY # Number(0) => LawHolds(ArgX)

\* What the first call pushed.
FirstResult == IF mid.done THEN Top(mid.heap, mid.stack) ELSE Top(heap, stack)

\* x / y is an i32 and y # 0.
QuotientFits == ArgY.v \notin {0, MinI32} /\ ~(ArgX.v = MinI32 /\ ArgY.v = -1)

\* x - y is an i32: the operands have the same sign or are small.
DifferenceFits ==
    \/ (ArgX.v >= 0) = (ArgY.v >= 0)
    \/ ArgX.v \in -65536..65536 /\ ArgY.v \in -65536..65536

\* q is x / y rounded toward zero (y # 0, the product q * y an i32).
IsQuotient(q, x, y) ==
    /\ (IF x - q * y >= 0 THEN x - q * y ELSE q * y - x) < (IF y >= 0 THEN y ELSE -y)
    /\ x - q * y # 0 => (x - q * y > 0) = (x > 0)

\* C19: with x pushed before y, so that y is popped first, primitive 15
\* pushes x - y, primitive 17 pushes x / y, primitive 13 pushes #t if x < y
\* and #f if not, and primitives 9, 10, 11 take x, the second popped, as
\* the rib and y, the first popped, as the new value of the field.
PopReverse ==
    /\ FirstCalled(15) /\ BothIntegers /\ DifferenceFits =>
          /\ ~Failed
          /\ FirstResult = Number(ArgX.v - ArgY.v)
    /\ FirstCalled(17) /\ BothIntegers /\ QuotientFits =>
          /\ ~Failed
          /\ ~is_rib(FirstResult)
          /\ IsQuotient(FirstResult.v, ArgX.v, ArgY.v)
    /\ FirstCalled(13) /\ BothIntegers =>
          /\ ~Failed
          /\ FirstResult = IF ArgX.v < ArgY.v THEN Rib(TRUE_REF) ELSE Rib(FALSE_REF)
    /\ \A code \in {9, 10, 11} :
          FirstCalled(code) =>
              /\ is_rib(ArgX) /\ status = "called" =>
                    /\ get(heap, ArgX.v) = WithField(get(pre.heap, ArgX.v), code, ArgY)
                    /\ Top(heap, stack) = ArgY
              /\ ~is_rib(ArgX) => status = "panic" /\ heap = pre.heap

PopReverseWitness ==
    /\ FirstCalled(15)
    /\ ArgX = Number(3)
    /\ ArgY = Number(-7)
    /\ status = "called"
    /\ Top(heap, stack) = Number(10)

\* C20: primitive 17 called with nargs 2 on a divisor that is the integer 0
\* ends the process with exit code 1 whatever the dividend is; it pushes no
\* result and leaves every rib as it was, the stack being the one below the
\* two popped cells.
DivisionByZeroExits ==
    FirstCalled(17) /\ ArgY = Number(0) =>
        /\ status = "exit"
        /\ exit_code = DIV_EXIT
        /\ heap = pre.heap
        /\ stack = get(pre.heap, get(pre.heap, pre.stack).middle.v).middle.v

DivisionByZeroExitsWitness ==
    /\ FirstCalled(17)
    /\ ArgY = Number(0)
    /\ ArgX = Rib(4)
    /\ status = "exit"
    /\ exit_code = 1
    /\ Len(heap) = 9

(***************************************************************************)
(* The instructions other than call (Spec).                                *)
(***************************************************************************)
\* The last iteration fetched an instruction of opcode op.
Fetched(op) ==
    /\ step_count > 0
    /\ is_rib(pre.pc) /\ InHeap(pre.heap, pre.pc.v)
    /\ InstrOf(pre).first = Number(op)

\* The stack of m has a cell to pop and the trace of the stack ends.
CanPop(m) ==
    /\ InHeap(m.heap, m.stack)
    /\ is_rib(get(m.heap, m.stack).middle)
    /\ start_step(m.heap, m.stack) = "ok"

\* C17: the if instruction pops one value; pc becomes pc.last when the
\* value is the reference to #f (index 0) and pc.middle for every other
\* value, the integer 0 and the references to () and #t included; the heap
\* is left as it was.
IfBranches ==
    Fetched(IF_OP) /\ CanPop(pre) =>
        /\ mid.done
        /\ mid.stack = Below(pre)
        /\ mid.pc = IF Top(pre.heap, pre.stack) = Rib(0)
                    THEN InstrOf(pre).last ELSE InstrOf(pre).middle
        /\ mid.heap = pre.heap

IfBranchesWitness ==
    /\ Fetched(IF_OP)
    /\ Top(pre.heap, pre.stack) = Number(0)
    /\ mid.done
    /\ mid.pc = InstrOf(pre).middle
    /\ mid.pc # InstrOf(pre).last

\* The code of the primitive that the call of m reaches (an u8).
PrimCode(m) == CalleeCode(m).v % 256

IsJump(m) == InstrOf(m).last = Number(0)

\* The steps that write no rib of the heap they found: get, const, if, halt,
\* the call of a user procedure, whose frame cell is allocated by the call
\* itself, and the call of a primitive other than the field setters 9, 10,
\* 11 and other than a jump to arg1 (2), which pushes no cell to splice.
AppendsOnly ==
    \/ \E op \in {GET, CNST, IF_OP, HALT} : Fetched(op)
    \/ CallStep /\ UserCall(pre)
    \/ CallStep /\ PrimCall(pre) /\ PrimCode(pre) \notin {9, 10, 11}
                /\ ~(IsJump(pre) /\ PrimCode(pre) = 2)

\* The ribs of h other than those at the indices of but are in g as they are.
SameBut(g, h, but) ==
    /\ Len(g) >= Len(h)
    /\ \A i \in 0..(Len(h) - 1) : i \notin but => get(g, i) = get(h, i)

\* C16, as the code has it: a get, a const, an if, a call of a user
\* procedure and a call or jump to a primitive other than 9, 10, 11 (a jump
\* to primitive 2 excepted) leave every rib they found as it was and only
\* append ribs; a set, with a symbol or with a stack slot as its operand,
\* writes the first field of the rib it names and nothing else; a jump to
\* primitive 2 writes the middle field of the cell left on top of the stack
\* and nothing else.
MutationConfined ==
    /\ AppendsOnly => Extends(mid.heap, pre.heap)
    /\ Fetched(SET) /\ mid.done =>
          /\ Len(mid.heap) = Len(pre.heap)
          /\ SameBut(mid.heap, pre.heap,
                     {get_opnd_ref(pre.heap, InstrOf(pre).middle, pre.stack)})
          /\ get(mid.heap, get_opnd_ref(pre.heap, InstrOf(pre).middle, pre.stack))
             = [get(pre.heap, get_opnd_ref(pre.heap, InstrOf(pre).middle, pre.stack))
                   EXCEPT !.first = Top(pre.heap, pre.stack)]
    /\ CallStep /\ PrimCall(pre) /\ IsJump(pre) /\ PrimCode(pre) = 2 /\ mid.done =>
          /\ Len(mid.heap) = Len(pre.heap)
          /\ SameBut(mid.heap, pre.heap, {mid.stack})
          /\ get(mid.heap, mid.stack).first = get(pre.heap, mid.stack).first
          /\ get(mid.heap, mid.stack).last = get(pre.heap, mid.stack).last

\* A set with a stack slot as its operand has written the cell of the slot.
MutationConfinedWitness ==
    /\ Fetched(SET)
    /\ ~is_rib(InstrOf(pre).middle)
    /\ mid.done
    /\ Len(mid.heap) = Len(pre.heap)
    /\ mid.heap # pre.heap

\* C16, as the spec has it: a get, a const, an if, a set with a stack slot as
\* its operand and a call or jump to a primitive other than 9, 10, 11 leave
\* every rib they found as it was and only append ribs.
OnlySettersMutate ==
    \/ \E op \in {GET, CNST, IF_OP} : Fetched(op)
    \/ Fetched(SET) /\ ~is_rib(InstrOf(pre).middle)
    \/ CallStep /\ PrimCall(pre) /\ PrimCode(pre) \notin {9, 10, 11}
    => Extends(mid.heap, pre.heap)

\* C21: a call or jump that resolves to a procedure whose code field is an
\* integer outside 0..20, 21 and the integers from 256 on included, panics
\* and has no effect of a primitive: the heap and the output are as the
\* call found them.
UnknownPrimitivePanics ==
    CallStep /\ PrimCall(pre) /\ ~(CalleeCode(pre).v \in 0..20) =>
        /\ status = "panic"
        /\ heap = pre.heap
        /\ out = <<>>

\* The cell at s is the primordial continuation: (0, 0, halt instruction).
PrimordialCell(h, s) ==
    /\ get(h, s).first = Number(0)
    /\ get(h, s).middle = Number(0)
    /\ is_rib(get(h, s).last)
    /\ get(h, get(h, s).last.v) = make_op_rib(HALT, Number(0), Number(0))

\* The last step was a jump to a primitive whose nearest continuation frame
\* was the primordial continuation: the entry procedure returned.
ReturnedToPrimordial ==
    /\ status = "run"
    /\ PrimJumpStep
    /\ PrimordialCell(pre.heap, FrameFrom(pre.heap, Below(pre)))

\* C22: the run starts on a stack that is the primordial continuation cell
\* alone, and when a jump finds that cell as its nearest continuation frame
\* the next iteration of the loop executes halt and the loop returns.
PrimordialHalts ==
    /\ [](SetupDone => PrimordialCell(mid.heap, mid.stack))
    /\ [][ReturnedToPrimordial => status' = "halt"]_vars

(***************************************************************************)
(* The readers and the first pass (SpecDecode).                            *)
(***************************************************************************)
\* The code of a byte and the reading of an integer as the spec states them:
\* the codes from position i are folded into n until one is below 46.
CodeOf(byte) == IF byte >= 35 THEN byte - 35 ELSE 57

\* The position of the first code below 46 from i on, 0 if there is none.
LastDigit(str, i) ==
    IF \E j \in i..Len(str) : CodeOf(str[j]) < 46
    THEN CHOOSE j \in i..Len(str) :
            CodeOf(str[j]) < 46 /\ \A l \in i..(j - 1) : CodeOf(str[l]) >= 46
    ELSE 0

RECURSIVE Folded(_, _, _, _)
Folded(n, str, i, j) ==
    IF i = j THEN 46 * n + CodeOf(str[j])
    ELSE Folded(46 * n + (CodeOf(str[i]) - 46), str, i + 1, j)

\* The position of the first ; from i on, 0 if there is none.
FirstSemi(str, i) ==
    IF \E j \in i..Len(str) : str[j] = 59
    THEN CHOOSE j \in i..Len(str) : str[j] = 59 /\ \A l \in i..(j - 1) : str[l] # 59
    ELSE 0

\* The names that the commas of str separate, the last one first.
RECURSIVE NamesOf(_, _, _)
NamesOf(str, name, names) ==
    IF str = <<>> THEN <<name>> \o names
    ELSE IF Head(str) = 44 THEN NamesOf(Tail(str), <<>>, <<name>> \o names)
    ELSE NamesOf(Tail(str), Append(name, Head(str)), names)

\* e refers to a symbol of value #f whose name is a string of the characters
\* name, its length field the number of cells of its list of characters.
IsSymbol(h, e, name) ==
    /\ is_rib(e)
    /\ get(h, e.v).first = Rib(FALSE_REF)
    /\ get(h, e.v).last = Number(SYMBOL)
    /\ is_rib(get(h, e.v).middle)
    /\ get(h, get(h, e.v).middle.v).last = Number(STRING_TAG)
    /\ ProperList(h, get(h, get(h, e.v).middle.v).first, Len(h))
    /\ get(h, get(h, e.v).middle.v).middle
       = Number(Len(ListSeq(h, get(h, get(h, e.v).middle.v).first)))
    /\ ListSeq(h, get(h, get(h, e.v).middle.v).first) = [i \in 1..Len(name) |-> Number(Reverse(name)[i])]

\* table lists the symbols of names, then count symbols of empty name.
IsTable(h, table, names, count) ==
    /\ Len(table) = count + Len(names)
    /\ \A i \in 1..Len(table) :
          IsSymbol(h, table[i], IF i <= Len(names) THEN names[i] ELSE <<>>)

PassOne(str, first, semi) ==
    /\ ProperList(heap, Rib(symtbl), Len(heap))
    /\ IsTable(heap, ListSeq(heap, Rib(symtbl)),
               NamesOf(SubSeq(str, first, semi - 1), <<>>, <<>>),
               Folded(0, str, 1, first - 1))
    /\ Len(ListSeq(heap, Rib(symtbl)))
       = Folded(0, str, 1, first - 1)
         + Cardinality({i \in first..(semi - 1) : str[i] = 44}) + 1

\* C23: after the first pass on an input whose initial integer is N and
\* which has k commas before its first ;, the symbol table is a list, ended
\* by (), of N + k + 1 symbols of value #f, each named by a string whose
\* length field counts its characters, the most recent symbol first: the
\* head is the one read between the last comma and the ;.
SymbolTableBuilt ==
    status = "decode" =>
        PassOne(rvm_code, LastDigit(rvm_code, 1) + 1,
                FirstSemi(rvm_code, LastDigit(rvm_code, 1) + 1))

SymbolTableBuiltWitness ==
    /\ status = "decode"
    /\ rvm_code = <<37, 97, 44, 98, 59>>
    /\ Len(ListSeq(heap, Rib(symtbl))) = 4
    /\ IsSymbol(heap, get(heap, symtbl).first, <<98>>)

\* C24: get_code is byte - 35 for a byte of 35 or more and 57 otherwise;
\* get_int(n) reads codes up to the first one below 46, consumes exactly
\* these characters and returns n folded by 46 * n + (x - 46) over the
\* codes x of 46 or more and closed by 46 * n + x on the last one.
ReadsBase46 ==
    /\ status = "read" =>
          /\ LastDigit(rvm_code, 1) # 0
          /\ pos = LastDigit(rvm_code, 1) + 1
          /\ n_field = Number(Folded(n_acc, rvm_code, 1, LastDigit(rvm_code, 1)))
    /\ status = "panic" /\ pos = 1 => LastDigit(rvm_code, 1) = 0

ReadsBase46Witness ==
    /\ status = "read"
    /\ rvm_code = <<33, 122, 80, 35>>
    /\ n_acc = 1
    /\ n_field = Number(122543)
    /\ pos = 4

(***************************************************************************)
(* The primitives called by the interpreter (Spec).                        *)
(***************************************************************************)
\* The n cells from s down are plain cells of the stack.
RECURSIVE PlainCells(_, _, _)
PlainCells(h, s, n) ==
    \/ n = 0
    \/ /\ InHeap(h, s)
       /\ get(h, s).last = Number(0)
       /\ is_rib(get(h, s).middle)
       /\ PlainCells(h, get(h, s).middle.v, n - 1)

\* A continuation frame is among the n cells from s down, plain cells above it.
RECURSIVE FrameWithin(_, _, _)
FrameWithin(h, s, n) ==
    /\ n > 0
    /\ InHeap(h, s)
    /\ \/ is_rib(get(h, s).last)
       \/ /\ get(h, s).last = Number(0)
          /\ is_rib(get(h, s).middle)
          /\ FrameWithin(h, get(h, s).middle.v, n - 1)

\* The last step called the primitive of this code.
PrimStep(code) == CallStep /\ PrimCall(pre) /\ CalleeCode(pre).v = code

\* C25: primitive 20 called with nargs = n on n plain cells pops these n
\* values and pushes one reference to a list of n pairs ended by () that
\* holds them in the order they were pushed, the first pushed at the head;
\* when a continuation frame is among the n cells the process exits with
\* code 256.
ListPrimitive ==
    PrimStep(20) /\ NArgs(pre) >= 0 =>
        /\ PlainCells(pre.heap, Below(pre), NArgs(pre)) =>
              /\ mid.done
              /\ is_rib(Top(mid.heap, mid.stack))
              /\ ProperList(mid.heap, Top(mid.heap, mid.stack), Len(mid.heap))
              /\ ListSeq(mid.heap, Top(mid.heap, mid.stack)) = Args(pre)
              /\ Extends(mid.heap, pre.heap)
              /\ ~IsJump(pre) =>
                    get(mid.heap, mid.stack).middle
                    = Rib(Drop(pre.heap, Below(pre), NArgs(pre)))
        /\ FrameWithin(pre.heap, Below(pre), NArgs(pre)) =>
              status = "exit" /\ exit_code = ARITY_EXIT

ListPrimitiveWitness ==
    /\ PrimStep(20)
    /\ NArgs(pre) = 3
    /\ mid.done
    /\ ListSeq(mid.heap, Top(mid.heap, mid.stack)) = <<Number(2), Number(3), Number(4)>>

\* The loop is about to execute a call of the primitive of this code.
AtPrim(code) ==
    /\ status = "run"
    /\ step_count < MaxSteps
    /\ is_rib(pc) /\ InHeap(heap, pc.v)
    /\ InstrOf(Machine).first = Number(CALL)
    /\ PrimCall(Machine)
    /\ CalleeCode(Machine).v = code

\* C26: primitive 18 consumes one byte of the input and pushes its code,
\* whatever the byte is, and pushes -1 exactly when the input is at its end.
GetcharReadsByte ==
    [][AtPrim(18) /\ NArgs(Machine) = 0 =>
          /\ status' = "run"
          /\ IF inp = <<>>
             THEN Top(heap', stack') = Number(-1)
             ELSE /\ Top(heap', stack') = Number(Head(inp))
                  /\ Top(heap', stack') # Number(-1)
                  /\ inp' = Tail(inp)]_vars

\* C27: primitive 12 pushes #t exactly when its two operands are integers of
\* the same value or references to the same index; references to two ribs
\* of the same content are not equal, and a reference never equals an integer.
EqvIdentity ==
    FirstCalled(12) =>
        /\ ~Failed
        /\ FirstResult =
              IF \/ ~is_rib(ArgX) /\ ~is_rib(ArgY) /\ ArgX.v = ArgY.v
                 \/ is_rib(ArgX) /\ is_rib(ArgY) /\ ArgX.v = ArgY.v
              THEN Rib(TRUE_REF) ELSE Rib(FALSE_REF)
        /\ is_rib(ArgX) # is_rib(ArgY) => FirstResult = Rib(FALSE_REF)
        /\ Extends(heap, pre.heap)

\* The references to #f and #t, two ribs of the same content, compare #f.
EqvIdentityWitness ==
    /\ FirstCalled(12)
    /\ ArgX = Rib(FALSE_REF)
    /\ ArgY = Rib(TRUE_REF)
    /\ get(pre.heap, FALSE_REF) = get(pre.heap, TRUE_REF)
    /\ status = "called"
    /\ Top(heap, stack) = Rib(FALSE_REF)

\* C28: primitive 2, called with nargs 2, pops exactly one value and drops
\* it: it pushes nothing and allocates nothing, no rib changes, and the
\* stack pointer after the call is the middle of the former top cell.
Arg1PopsOne ==
    FirstCalled(2) =>
        /\ ~Failed
        /\ status = "called" =>
              /\ stack = get(pre.heap, pre.stack).middle.v
              /\ heap = pre.heap
        /\ status = "recalled" =>
              /\ mid.stack = get(pre.heap, pre.stack).middle.v
              /\ mid.heap = pre.heap
              /\ Top(heap, stack) = ArgX

\* The cell of 3 is popped from above the cell of -7 and nothing is pushed.
Arg1PopsOneWitness ==
    /\ FirstCalled(2)
    /\ ArgX = Number(-7)
    /\ ArgY = Number(3)
    /\ status = "called"
    /\ stack = 7
    /\ Top(heap, stack) = Number(-7)
    /\ heap = pre.heap

\* The number of continuation frames on the chain from the cell s: a plain
\* cell leads to its middle, a frame cell (last a reference) counts and
\* leads to its first, and the chain ends at the frame whose first is an
\* integer.  -1 when the chain is not of this form within fuel cells.
RECURSIVE Frames(_, _, _)
Frames(h, s, fuel) ==
    IF fuel = 0 \/ ~InHeap(h, s) THEN -1
    ELSE IF is_rib(get(h, s).last)
    THEN IF ~is_rib(get(h, s).first) THEN 1
         ELSE LET n == Frames(h, get(h, s).first.v, fuel - 1)
              IN IF n < 0 THEN -1 ELSE n + 1
    ELSE IF ~is_rib(get(h, s).middle) THEN -1
    ELSE Frames(h, get(h, s).middle.v, fuel - 1)

FramesOf(m) == Frames(m.heap, m.stack, Len(m.heap))

\* The last step called a user procedure and built its frame.
UserCallStep == CallStep /\ UserCall(pre) /\ mid.done /\ FramesOf(pre) > 0

\* C29: a tail jump to a user procedure gives the new frame cell the first
\* and the last of the nearest continuation frame of the stack it leaves,
\* so the chain from the stack pointer has as many continuation frames
\* after the jump as before; a true call adds exactly one frame.
JumpKeepsFrames ==
    UserCallStep =>
        /\ IsJump(pre) =>
              /\ get(mid.heap, Len(pre.heap)).first
                 = get(pre.heap, FrameFrom(pre.heap, pre.stack)).first
              /\ get(mid.heap, Len(pre.heap)).last
                 = get(pre.heap, FrameFrom(pre.heap, pre.stack)).last
              /\ FramesOf(mid) = FramesOf(pre)
        /\ ~IsJump(pre) => FramesOf(mid) = FramesOf(pre) + 1

\* A jump made under two frames leaves two frames.
JumpKeepsFramesWitness ==
    /\ UserCallStep
    /\ IsJump(pre)
    /\ FramesOf(pre) = 2
    /\ FramesOf(mid) = 2
    /\ get(mid.heap, Len(pre.heap)).last = get(pre.heap, FrameFrom(pre.heap, pre.stack)).last

\* The firsts of the n cells from s down, the top one first.
Slots(h, s, n) == [i \in 1..n |-> get(h, Drop(h, s, i - 1)).first]

\* The last step called a user procedure of fixed arity on plain cells.
FixedCallStep ==
    /\ CallStep /\ UserCall(pre)
    /\ Params(pre) >= 0 /\ ~IsVariadic(Params(pre))
    /\ NArgs(pre) = Shr1(Params(pre))
    /\ PlainCells(pre.heap, Below(pre), NArgs(pre))
    /\ is_rib(InstrOf(pre).last) \/ FramesOf(pre) > 0

\* C30: a call or a jump to a user procedure of fixed arity n makes a stack
\* of n argument cells above the frame cell; the slot i from the top holds
\* the (i+1)-th argument the caller pushed, the frame cell's middle is the
\* procedure called, n values have left the caller's stack, and pc is the
\* last field of the procedure's code rib.
CallBuildsFrame ==
    FixedCallStep =>
        /\ mid.done
        /\ PlainCells(mid.heap, mid.stack, NArgs(pre))
        /\ Slots(mid.heap, mid.stack, NArgs(pre)) = Args(pre)
        /\ Drop(mid.heap, mid.stack, NArgs(pre)) = Len(pre.heap)
        /\ get(mid.heap, Len(pre.heap)).middle = Callee(pre)
        /\ is_rib(get(mid.heap, Len(pre.heap)).last)
        /\ ~IsJump(pre) =>
              get(mid.heap, Len(pre.heap)).first
              = Rib(Drop(pre.heap, Below(pre), NArgs(pre)))
        /\ mid.pc = get(pre.heap, CalleeCode(pre).v).last

\* The call of the two-parameter procedure with 3 pushed before 9.
CallBuildsFrameWitness ==
    /\ FixedCallStep
    /\ ~IsJump(pre)
    /\ Args(pre) = <<Number(3), Number(9)>>
    /\ mid.done
    /\ Top(mid.heap, mid.stack) = Number(3)
    /\ Top(mid.heap, get(mid.heap, mid.stack).middle.v) = Number(9)

\* The operand of the instruction fetched.
Operand == InstrOf(pre).middle

\* The last step was a set whose operand names a cell: a slot of the stack
\* that holds the value to pop, or a rib.
SetStep ==
    /\ Fetched(SET)
    /\ CanPop(pre)
    /\ InHeap(pre.heap, get_opnd_ref(pre.heap, Operand, pre.stack))

\* C31: set with an integer operand n finds its cell on the stack that still
\* holds the value: set 0 changes no cell, and for n >= 1 the value popped
\* is the first field of the slot n - 1 of the stack that is left, where a
\* get n - 1 reads it; set with a symbol operand stores the value in the
\* first field of the symbol, where a get of the symbol reads it.
SetThenGet ==
    SetStep =>
        /\ mid.done
        /\ mid.stack = Below(pre)
        /\ mid.pc = InstrOf(pre).last
        /\ SameBut(mid.heap, pre.heap, {get_opnd_ref(pre.heap, Operand, pre.stack)})
        /\ Operand = Number(0) => mid.heap = pre.heap
        /\ ~is_rib(Operand) /\ Operand.v >= 1 =>
              /\ get_opnd_ref(mid.heap, Number(Operand.v - 1), mid.stack)
                 = get_opnd_ref(pre.heap, Operand, pre.stack)
              /\ get(mid.heap, get_opnd_ref(mid.heap, Number(Operand.v - 1), mid.stack)).first
                 = Top(pre.heap, pre.stack)
        /\ is_rib(Operand) =>
              get(mid.heap, get_opnd_ref(mid.heap, Operand, mid.stack)).first
              = Top(pre.heap, pre.stack)

\* set 2 on the stack 7, 6, 5 puts 7 in the cell of 5, the slot 1 of the
\* stack that is left.
SetThenGetWitness ==
    /\ SetStep
    /\ Operand = Number(2)
    /\ Top(pre.heap, pre.stack) = Number(7)
    /\ mid.done
    /\ Top(mid.heap, mid.stack) = Number(6)
    /\ Top(mid.heap, Below(mid)) = Number(7)
    /\ Top(pre.heap, Below(mid)) = Number(5)

\* The last step was a const or a get, which end with a push_stack of Pushed.
PushStep == (Fetched(CNST) \/ Fetched(GET)) /\ mid.done

Pushed ==
    IF InstrOf(pre).first = Number(CNST) THEN Operand
    ELSE get(pre.heap, get_opnd_ref(pre.heap, Operand, pre.stack)).first

\* pop_stack on the machine that the push left.
PopAfterPush == pop_stack([Machine EXCEPT !.heap = mid.heap, !.stack = mid.stack])

\* C32: push_stack(x) appends one rib (x, reference to the old stack, 0) at
\* the index that was the length of the heap, changes no other rib and
\* makes that index the stack; a pop_stack that follows returns x and makes
\* the stack the one before the push, the heap as the push left it.
PushThenPop ==
    PushStep =>
        /\ mid.heap = Append(pre.heap, make_rib(Pushed, Rib(pre.stack), Number(0)))
        /\ mid.stack = Len(pre.heap)
        /\ Ok(PopAfterPush)
        /\ PopAfterPush.ret = Pushed
        /\ PopAfterPush.stack = pre.stack
        /\ PopAfterPush.heap = mid.heap

\* const 7 pushed on the stack 6, 5.
PushThenPopWitness ==
    /\ PushStep
    /\ Pushed = Number(7)
    /\ Top(pre.heap, pre.stack) = Number(6)
    /\ mid.stack = Len(pre.heap)
    /\ get(mid.heap, mid.stack) = make_rib(Number(7), Rib(pre.stack), Number(0))
    /\ PopAfterPush.stack = pre.stack

\* The indices that the ribs at the indices of from refer to.
Children(h, from) ==
    {Fields(get(h, i))[k].v :
        <<i, k>> \in {ik \in from \X (1..3) :
                         InHeap(h, ik[1]) /\ is_rib(Fields(get(h, ik[1]))[ik[2]])}}

\* The pairs <<index, distance>> of the ribs reached from the frontier, at
\* distance d, through ribs that are not in seen.
RECURSIVE Levels(_, _, _, _)
Levels(h, frontier, seen, d) ==
    IF frontier = {} THEN {}
    ELSE {<<i, d>> : i \in frontier}
         \cup Levels(h, Children(h, frontier) \ (seen \cup frontier), seen \cup frontier, d + 1)

\* The traversal of one root that finds the ribs of seen forwarded.
RootLevels(h, root, seen) == Levels(h, {root} \ seen, seen, 0)

Indices(levels) == {p[1] : p \in levels}

\* Every rib of a distance has a lower new index than every rib of the next.
ByDistance(levels) ==
    \A p, q \in levels : q[2] = p[2] + 1 => fwd[p[1]] < fwd[q[1]]

\* The three traversals of the collection of the machine m: symtbl, pc, stack.
SymtblLevels(m) == RootLevels(m.heap, m.symtbl, {0, 1, 2})

PcLevels(m) == RootLevels(m.heap, m.pc.v, {0, 1, 2} \cup Indices(SymtblLevels(m)))

StackLevels(m) ==
    RootLevels(m.heap, m.stack,
               {0, 1, 2} \cup Indices(SymtblLevels(m)) \cup Indices(PcLevels(m)))

\* C33, as stated: within the traversal of each root, in the order symtbl,
\* pc, stack, the collector gives every rib first reached at the distance d
\* from the root a lower new index than every rib first reached at d + 1.
BreadthFirstCopy ==
    Collected_ =>
        /\ ByDistance(SymtblLevels(mid))
        /\ ByDistance(PcLevels(mid))
        /\ ByDistance(StackLevels(mid))

\* The last reference field of the rib r of h whose target has no new index
\* below n, 0 when there is none.
LastChild(h, r, n) ==
    LET kids == {k \in 1..3 : is_rib(Fields(get(h, r))[k]) /\ fwd[Fields(get(h, r))[k].v] > n}
    IN IF kids = {} THEN 0 ELSE CHOOSE k \in kids : \A j \in kids : j <= k

\* C33, as the code has it: the work list is a stack.  The root of a
\* traversal is copied first, and the rib copied after a rib that refers to
\* ribs not yet forwarded is the one its last such field refers to: a rib
\* at a greater distance is copied before the other ribs its parent refers to.
DepthFirstCopy ==
    Collected_ =>
        /\ \A r \in DOMAIN fwd :
              fwd[r] >= 3 /\ LastChild(mid.heap, r, fwd[r]) # 0 =>
                  fwd[Fields(get(mid.heap, r))[LastChild(mid.heap, r, fwd[r])].v] = fwd[r] + 1
        /\ \A levels \in {SymtblLevels(mid), PcLevels(mid), StackLevels(mid)} :
              \A p, q \in levels : p[2] = 0 => fwd[p[1]] <= fwd[q[1]]

\* The first collection of the embedded program: the second cell of the
\* symbol table, at the distance 1 from the root, is copied at the index 4,
\* before the symbol of the first cell, at the distance 1 too.
DepthFirstCopyWitness ==
    /\ Collected_
    /\ gc_count = 1
    /\ fwd[mid.symtbl] = 3
    /\ is_rib(get(mid.heap, mid.symtbl).middle)
    /\ fwd[get(mid.heap, mid.symtbl).middle.v] = 4
    /\ fwd[get(mid.heap, mid.symtbl).first.v] > 5

\* C34: show ends on every heap graph, cyclic ones included: the rendering
\* of the value on top of the stack, which start_step asks for at the
\* start of every iteration, never goes on for ever.
ShowTerminates ==
    Running /\ InHeap(heap, stack) /\ IsTag(get(heap, stack).last, 0) =>
        show(heap, Top(heap, stack), {}) # "diverge"

\* The opcode of the table that the claim gives to the code x.
TableOp(x) ==
    CASE x <= 22 -> CALL [] x <= 55 -> SET [] x <= 58 -> GET
      [] x <= 71 -> CNST [] x <= 85 -> IF_OP [] OTHER -> HALT

\* The op of the allocation: call has moved on to set, and a procedure form
\* (halt in the table, x <= 90) has become if.
AllocOp(x) ==
    CASE x <= 22 -> SET [] x > 85 /\ x <= 90 -> IF_OP [] OTHER -> TableOp(x)

\* The decoding loop is about to read a code of the string.
AtCode == status = "decode" /\ pos <= Len(rvm_code)

CodeRead == rvm_code[pos] - 35

Arity(code) ==
    CASE code = 0 -> 3
      [] code \in {1, 4, 5, 6, 7, 8, 19, 21} -> 1
      [] OTHER -> 2

ArityTested == (0..17) \cup {19, 21}

\* The last step called a primitive, and the trace of the stack ended.
PrimCalled == CallStep /\ PrimCall(pre) /\ CanPop(pre)

\* C36: the errors of a call of a primitive come in a fixed order.  The test
\* of nargs comes first: when it fails the process exits with 256 and no
\* operand has been popped, whatever the operands are; primitive 17 with
\* nargs # 2 and 0 on top exits with 256, not 1.  In primitive 17 the test of
\* the divisor comes before the test of the types: with nargs = 2 and the
\* divisor 0 it exits with 1 when the dividend is a reference.
ErrorPrecedence ==
    /\ PrimCalled /\ PrimCode(pre) \in ArityTested /\ NArgs(pre) # Arity(PrimCode(pre)) =>
          /\ status = "exit"
          /\ exit_code = ARITY_EXIT
          /\ stack = Below(pre)
          /\ heap = pre.heap
    /\ PrimCalled /\ PrimCode(pre) = 17 /\ NArgs(pre) = 2
       /\ Top(pre.heap, Below(pre)) = Number(0)
       /\ is_rib(get(pre.heap, Below(pre)).middle) =>
          /\ status = "exit"
          /\ exit_code = DIV_EXIT

\* Primitive 17 called with nargs = 3 on 0, with a reference below it.
ErrorPrecedenceWitness ==
    /\ PrimCalled
    /\ PrimCode(pre) = 17
    /\ NArgs(pre) = 3
    /\ Top(pre.heap, Below(pre)) = Number(0)
    /\ is_rib(Top(pre.heap, get(pre.heap, Below(pre)).middle.v))
    /\ status = "exit"
    /\ exit_code = 256
    /\ stack = Below(pre)

====
